---------------------------- MODULE Spec2Model ----------------------------
(***************************************************************************)
(* pgexport: streaming export of a row cursor into delimited text (csv),  *)
(* structured documents (json), markup (xml) and insert statements (sql), *)
(* through a buffered writer over an optionally compressed output sink.   *)
(*                                                                         *)
(* One export is one behaviour.  It is entered either through the command *)
(* (runExport: parameter validation, delimiter parsing, connection, query,*)
(* dispatch) or by calling a writer's Export directly with an options      *)
(* record, as the package's tests do.  A writer is followed statement by   *)
(* statement: sink creation, cursor iteration, buffered writes, return,    *)
(* and then its deferred calls (flushes, Close) in LIFO order.             *)
(*                                                                         *)
(* Output is modelled as a sequence of tokens, one per write call of the   *)
(* source.  The cursor, the file system and the compression library are    *)
(* the environment: each cursor call and each I/O call may succeed or      *)
(* fail, chosen at the step where the call is made.                        *)
(***************************************************************************)
EXTENDS Integers, Sequences, FiniteSets, TLC

(***************************************************************************)
(* Bounds of the model.                                                    *)
(***************************************************************************)
\* most rows a cursor delivers
MaxRows == 3
\* largest rows-per-statement value tried
MaxBatch == 2
\* capacity of the bufio.Writer, in tokens (4096 bytes in the source)
BufCap == 2
\* rows between periodic flushes (10000 in the source's row writers)
RowFlushEvery == 2
\* statements between periodic flushes (1000 in the statement generator)
StmtFlushEvery == 2

VARIABLES
    pc,                 \* position of the export in the code
    entry,              \* "none" | "cli" | "api": how the export was entered
    flags,              \* command-line flags (main.go:15-33), NoFlags if unset
    options,            \* ExportOptions handed to the writer, NoOptions before
    writer,             \* the writer that runs: sql | csv | json | xml | copy
    nextCount,          \* number of times rows.Next() returned true
    cursorErr,          \* rows.Err() is non-nil
    delivered,          \* rows whose Values() call succeeded, in order
    rowCount,           \* the writer's local rowCount
    statementCount,     \* the statement generator's local statementCount
    batchInsertValues,  \* the statement generator's batch slice
    bufferedWriter,     \* the bufio.Writer: [buf, err]
    fileState,          \* "none" | "open" | "closed": the os.File
    fileData,           \* tokens that reached the file
    fileCloses,         \* number of file.Close() calls
    comp,               \* "absent" | "open" | "closed": gzip/zip writer
    closeLog,           \* the layers closed so far, in order, with outcomes
    closeErr,           \* error returned by writeCloser.Close()
    sinkCloses,         \* number of writeCloser.Close() calls
    deferred,           \* stack of deferred calls still to run
    ret,                \* (rowCount, err) returned by the writer
    ioFailed,           \* some write, flush, finalize or close has failed
    warnings,           \* warnings logged
    loc,                \* time location chosen by userTimeZoneFormat
    cliErr,             \* error returned by runExport
    call,               \* last call of a formatting function: [fn, arg, res]
    exportersRegistry,  \* the format registry: name -> factory
    regResult           \* outcome of the last registry call

vars == <<pc, entry, flags, options, writer, nextCount, cursorErr, delivered,
          rowCount, statementCount, batchInsertValues, bufferedWriter,
          fileState, fileData, fileCloses, comp, closeLog, closeErr,
          sinkCloses, deferred, ret, ioFailed, warnings, loc, cliErr,
          call, exportersRegistry, regResult>>

cursorVars == <<nextCount, cursorErr, delivered>>
fileVars == <<fileState, fileData, fileCloses, comp, closeLog, closeErr, sinkCloses>>
localVars == <<rowCount, statementCount, batchInsertValues>>
cliVars == <<entry, flags, cliErr>>
tzVars == <<warnings, loc>>
libVars == <<call, exportersRegistry, regResult>>
exportVars == <<pc, options, writer, cursorVars, localVars, bufferedWriter,
                fileVars, deferred, ret, ioFailed, cliVars, tzVars>>

NoFlags == [unset |-> TRUE]
NoOptions == [unset |-> TRUE]
NoRet == [unset |-> TRUE]
NoCall == [fn |-> "none"]
EmptyRegistry == [n \in {} |-> "nil"]
NoResult == [op |-> "none", format |-> "", factory |-> "nil", err |-> "nil",
             panic |-> FALSE, prev |-> EmptyRegistry]
Nil == "nil"

Min(a, b) == IF a < b THEN a ELSE b

(***************************************************************************)
(* Output tokens: one per write call.  v holds the row numbers the token   *)
(* carries (one row for a line, entry or row element, the batch for a      *)
(* statement, empty for framing).                                          *)
(***************************************************************************)
Tok(k, v) == [k |-> k, v |-> v]

RECURSIVE RowsOf(_)
\* the row numbers carried by a token sequence, in order of appearance
RowsOf(toks) ==
    IF toks = <<>> THEN <<>>
    ELSE (IF Head(toks).k \in {"stmt", "line", "obj", "rowend"}
             THEN Head(toks).v ELSE <<>>) \o RowsOf(Tail(toks))

RECURSIVE Stmts(_)
\* the statements of a token sequence, each as its sequence of rows
Stmts(toks) ==
    IF toks = <<>> THEN <<>>
    ELSE (IF Head(toks).k = "stmt" THEN <<Head(toks).v>> ELSE <<>>)
         \o Stmts(Tail(toks))

\* everything the writer has emitted so far: flushed tokens, then buffered
Emitted == fileData \o bufferedWriter.buf


(***************************************************************************)
(* Strings.  strings.ToLower(strings.TrimSpace(s)) on the strings used as  *)
(* option values here; every other string of the model is already lower    *)
(* case and trimmed.                                                        *)
(***************************************************************************)
ToLowerTrim(s) ==
    CASE s = "GZIP"  -> "gzip"
      [] s = " zip " -> "zip"
      [] s = "CSV"   -> "csv"
      [] s = "JSON"  -> "json"
      [] s = " Sql " -> "sql"
      [] s = "   "   -> ""
      [] OTHER       -> s

\* strings.TrimSpace on the same strings
TrimSpace(s) ==
    CASE s = " zip " -> "zip"
      [] s = " Sql " -> "Sql"
      [] s = " "       -> ""
      [] s = " , "     -> ","
      [] s = "  \\t  " -> "\\t"
      [] s = "   "   -> ""
      [] OTHER       -> s

(***************************************************************************)
(* bufio.Writer over the sink.  An I/O outcome w is the number of tokens   *)
(* the sink accepts before it fails; the call succeeds when w covers all   *)
(* tokens offered.                                                          *)
(***************************************************************************)
Outcomes == 0..BufCap

\* the writer chain as one value, so that several calls compose in a step
CurIO == [buf |-> bufferedWriter.buf, err |-> bufferedWriter.err,
          data |-> fileData, failed |-> ioFailed]

\* the sink takes writes while the file is open and the framing not closed
SinkWritable == fileState = "open" /\ comp # "closed"

\* a Flush that leaves the buffer as it is
FlushKeepsBuffer(s, w) == s

\* bufio.Writer.Flush: sticky error; on a short write the rest stays buffered
Flush(s, w) ==
    IF s.err THEN s
    ELSE IF s.buf = <<>> THEN s
    ELSE LET n == IF SinkWritable THEN Min(w, Len(s.buf)) ELSE 0
         IN IF n = Len(s.buf)
               THEN [s EXCEPT !.data = @ \o s.buf, !.buf = <<>>]
               ELSE [s EXCEPT !.data = @ \o SubSeq(s.buf, 1, n),
                              !.buf = SubSeq(s.buf, n + 1, Len(s.buf)),
                              !.err = TRUE, !.failed = TRUE]

\* bufio.Writer.WriteString of one token: flushes first when the buffer is full
WriteString(s, tok, w) ==
    IF s.err THEN s
    ELSE IF Len(s.buf) < BufCap THEN [s EXCEPT !.buf = Append(@, tok)]
    ELSE LET f == Flush(s, w)
         IN IF f.err THEN f ELSE [f EXCEPT !.buf = Append(@, tok)]

RECURSIVE WriteAll(_, _, _)
\* consecutive WriteString calls, ws[i] the outcome of the i-th
WriteAll(s, toks, ws) ==
    IF toks = <<>> THEN s
    ELSE WriteAll(WriteString(s, Head(toks), Head(ws)), Tail(toks), Tail(ws))

SetIO(s) ==
    /\ bufferedWriter' = [buf |-> s.buf, err |-> s.err]
    /\ fileData' = s.data
    /\ ioFailed' = s.failed

(***************************************************************************)
(* Return from a writer: the result is fixed, then the deferred calls run. *)
(***************************************************************************)
Return(rc, e) ==
    /\ ret' = [rowCount |-> rc, err |-> e]
    /\ pc' = "defers"

(***************************************************************************)
(* The row cursor (pgx.Rows), owned by the caller.                         *)
(***************************************************************************)
\* rows.Next(): a further row, or the end with or without a terminal error
CursorNext(pcRow, pcEnd) ==
    \/ /\ nextCount < MaxRows
       /\ nextCount' = nextCount + 1
       /\ pc' = pcRow
       /\ UNCHANGED <<cursorErr, delivered>>
    \/ /\ \E e \in BOOLEAN : cursorErr' = e
       /\ pc' = pcEnd
       /\ UNCHANGED <<nextCount, delivered>>

(***************************************************************************)
(* Go slices: a backing array and a length.                                *)
(***************************************************************************)
\* make([][]string, 0, c)
MakeSlice(c) == [arr |-> [i \in 1..c |-> 0], len |-> 0]
\* append(s, x): in place while the capacity allows, else into a new array
AppendSlice(s, x) ==
    IF s.len < Len(s.arr)
      THEN [arr |-> [s.arr EXCEPT ![s.len + 1] = x], len |-> s.len + 1]
      ELSE [arr |-> Append(SubSeq(s.arr, 1, s.len), x), len |-> s.len + 1]
\* s[:0]
ResetSlice(s) == [s EXCEPT !.len = 0]
\* the whole backing array instead of the elements below the length
ElemsWholeArray(s) == s.arr

\* the elements of the slice
Elems(s) == SubSeq(s.arr, 1, s.len)

(***************************************************************************)
(* Initial state: nothing has run.                                         *)
(***************************************************************************)
ExportInit ==
    /\ pc = "start"
    /\ entry = "none"
    /\ flags = NoFlags
    /\ options = NoOptions
    /\ writer = "none"
    /\ nextCount = 0
    /\ cursorErr = FALSE
    /\ delivered = <<>>
    /\ rowCount = 0
    /\ statementCount = 0
    /\ batchInsertValues = MakeSlice(0)
    /\ bufferedWriter = [buf |-> <<>>, err |-> FALSE]
    /\ fileState = "none"
    /\ fileData = <<>>
    /\ fileCloses = 0
    /\ comp = "absent"
    /\ closeLog = <<>>
    /\ closeErr = Nil
    /\ sinkCloses = 0
    /\ deferred = <<>>
    /\ ret = NoRet
    /\ ioFailed = FALSE
    /\ warnings = <<>>
    /\ loc = "unset"
    /\ cliErr = Nil

\* no library call made, the registry empty as before any init() has run
LibInit ==
    /\ call = NoCall
    /\ exportersRegistry = EmptyRegistry
    /\ regResult = NoResult

Init == ExportInit /\ LibInit

(***************************************************************************)
(* The output sink (exporters/compression.go).                             *)
(***************************************************************************)
None == "none"
GZIP == "gzip"
ZIP == "zip"

\* deferred calls without the Close of the sink
DefersNoClose(w) ==
    CASE w = "csv"  -> <<"flush", "flush">>
      [] w = "copy" -> <<>>
      [] OTHER      -> <<"flush">>

\* the deferred calls a writer registers after the sink is created, top first
Defers(w) ==
    CASE w = "csv"  -> <<"flush", "flush", "close">>
      [] w = "copy" -> <<"close">>
      [] OTHER      -> <<"flush", "close">>

\* first statement of each writer after the sink and its buffer are set up
WriterStart(w) ==
    CASE w = "sql"  -> "sqlBegin"
      [] w = "csv"  -> "csvHeader"
      [] w = "json" -> "jsonOpen"
      [] w = "xml"  -> "xmlHeader"
      [] w = "copy" -> "copyTo"

\* createOutputWriter, called first by every writer; an error returns (0, err)
\* before any deferred call is registered
CreateOutputWriter ==
    /\ pc = "create"
    /\ LET compression == ToLowerTrim(options.Compression)
       IN \/ \* default: unsupported compression
             /\ compression \notin {None, GZIP, ZIP}
             /\ ret' = [rowCount |-> 0, err |-> "unsupported compression"]
             /\ pc' = "returned"
             /\ UNCHANGED <<fileState, fileData, fileCloses, comp, closeLog,
                            deferred, ioFailed>>
          \/ \* os.Create fails
             /\ compression \in {None, GZIP, ZIP}
             /\ ret' = [rowCount |-> 0, err |-> "create"]
             /\ pc' = "returned"
             /\ UNCHANGED <<fileState, fileData, fileCloses, comp, closeLog,
                            deferred, ioFailed>>
          \/ \* zip: the entry cannot be created; both layers are closed
             /\ compression = ZIP
             /\ fileState' = "closed"
             /\ fileCloses' = fileCloses + 1
             /\ comp' = "closed"
             /\ \E ok1 \in BOOLEAN, ok2 \in BOOLEAN :
                   closeLog' = <<[step |-> "finalize", ok |-> ok1],
                                 [step |-> "file", ok |-> ok2]>>
             /\ ret' = [rowCount |-> 0, err |-> "zip entry"]
             /\ pc' = "returned"
             /\ ioFailed' = TRUE
             /\ UNCHANGED <<fileData, deferred>>
          \/ \* the sink is created
             /\ compression \in {None, GZIP, ZIP}
             /\ fileState' = "open"
             /\ comp' = IF compression = None THEN "absent" ELSE "open"
             /\ fileData' = IF compression = ZIP THEN <<Tok("zentry", <<>>)>> ELSE <<>>
             /\ deferred' = Defers(writer)
             /\ pc' = WriterStart(writer)
             /\ UNCHANGED <<ret, fileCloses, closeLog, ioFailed>>
    /\ UNCHANGED <<libVars, cliVars, options, writer, cursorVars, localVars,
                   bufferedWriter, closeErr, sinkCloses, tzVars>>

\* closeFunc closing the file before the compression layer
CloseStepsFileFirst(c) == IF c = "absent" THEN <<"file">> ELSE <<"file", "finalize">>

\* the calls closeFunc makes, in order (compression.go:54-63, 84-93); without
\* compression the sink is the file itself
CloseSteps(c) == IF c = "absent" THEN <<"file">> ELSE <<"finalize", "file">>

\* error bookkeeping where a later error overwrites an earlier one
KeepLast(err, e) == IF e # Nil THEN e ELSE err

\* closeFunc's error bookkeeping: err keeps the first error
KeepFirst(err, e) == IF err = Nil THEN e ELSE err

\* a deferred bufferedWriter.Flush() / csv writer.Flush(): the error is dropped
DeferredFlush ==
    /\ pc = "defers"
    /\ deferred # <<>>
    /\ Head(deferred) = "flush"
    /\ \E w \in Outcomes : SetIO(Flush(CurIO, w))
    /\ deferred' = Tail(deferred)
    /\ UNCHANGED <<libVars, pc, cliVars, options, writer, cursorVars, localVars,
                   fileState, fileCloses, comp, closeLog, closeErr, sinkCloses,
                   ret, tzVars>>

\* the deferred writeCloser.Close() starts: its calls replace it on the stack
DeferredClose ==
    /\ pc = "defers"
    /\ deferred # <<>>
    /\ Head(deferred) = "close"
    /\ sinkCloses' = sinkCloses + 1
    /\ deferred' = CloseSteps(comp) \o Tail(deferred)
    /\ UNCHANGED <<libVars, pc, cliVars, options, writer, cursorVars, localVars,
                   bufferedWriter, fileState, fileData, fileCloses, comp,
                   closeLog, closeErr, ret, ioFailed, tzVars>>

\* gzipWriter.Close() / zipWriter.Close(): writes the trailer to the file
CloseFinalize ==
    /\ pc = "defers"
    /\ deferred # <<>>
    /\ Head(deferred) = "finalize"
    /\ \E ok \in BOOLEAN :
          LET done == ok /\ fileState = "open" /\ comp = "open"
          IN /\ fileData' = IF done THEN Append(fileData, Tok("ztrailer", <<>>))
                                    ELSE fileData
             /\ closeErr' = KeepFirst(closeErr, IF done THEN Nil ELSE "compress")
             /\ ioFailed' = (ioFailed \/ ~done)
             /\ closeLog' = Append(closeLog, [step |-> "finalize", ok |-> done])
    /\ comp' = "closed"
    /\ deferred' = Tail(deferred)
    /\ UNCHANGED <<libVars, pc, cliVars, options, writer, cursorVars, localVars,
                   bufferedWriter, fileState, fileCloses, sinkCloses, ret, tzVars>>

\* file.Close()
CloseFile ==
    /\ pc = "defers"
    /\ deferred # <<>>
    /\ Head(deferred) = "file"
    /\ \E ok \in BOOLEAN :
          LET done == ok /\ fileState = "open"
          IN /\ closeErr' = KeepFirst(closeErr, IF done THEN Nil ELSE "file")
             /\ ioFailed' = (ioFailed \/ ~done)
             /\ closeLog' = Append(closeLog, [step |-> "file", ok |-> done])
    /\ fileState' = "closed"
    /\ fileCloses' = fileCloses + 1
    /\ deferred' = Tail(deferred)
    /\ UNCHANGED <<libVars, pc, cliVars, options, writer, cursorVars, localVars,
                   bufferedWriter, fileData, comp, sinkCloses, ret, tzVars>>

\* all deferred calls have run: the writer's call returns to its caller
DefersDone ==
    /\ pc = "defers"
    /\ deferred = <<>>
    /\ pc' = "returned"
    /\ UNCHANGED <<libVars, cliVars, options, writer, cursorVars, localVars,
                   bufferedWriter, fileVars, deferred, ret, ioFailed, tzVars>>

(***************************************************************************)
(* The statement generator (core/exporters/sql_exporter.go).               *)
(***************************************************************************)
\* writeBatchInsert that writes full batches only
writeBatchInsertFullOnly(s, rows, w) ==
    IF Len(rows) < options.RowPerStatement THEN s
    ELSE WriteString(s, Tok("stmt", rows), w)

\* writeBatchInsert: one statement holding the rows of the batch
writeBatchInsert(s, rows, w) ==
    IF Len(rows) = 0 THEN s ELSE WriteString(s, Tok("stmt", rows), w)

\* lines 32-43: column list and the batch slice; make panics on a negative
\* capacity and the deferred calls run while the panic unwinds
SqlBegin ==
    /\ pc = "sqlBegin"
    /\ IF options.RowPerStatement < 0
         THEN /\ Return(0, "panic")
              /\ UNCHANGED batchInsertValues
         ELSE /\ batchInsertValues' = MakeSlice(options.RowPerStatement)
              /\ pc' = "sqlNext"
              /\ UNCHANGED ret
    /\ UNCHANGED <<libVars, cliVars, options, writer, cursorVars, rowCount,
                   statementCount, bufferedWriter, fileVars, deferred,
                   ioFailed, tzVars>>

\* line 45: for rows.Next()
SqlNext ==
    /\ pc = "sqlNext"
    /\ CursorNext("sqlRow", "sqlFinal")
    /\ UNCHANGED <<libVars, cliVars, options, writer, localVars, bufferedWriter,
                   fileVars, deferred, ret, ioFailed, tzVars>>

\* lines 46-74: one iteration of the loop
SqlRow ==
    /\ pc = "sqlRow"
    /\ \/ \* rows.Values() fails
          /\ Return(0, "read")
          /\ UNCHANGED <<cursorVars, localVars, bufferedWriter, fileData, ioFailed>>
       \/ \E w1 \in Outcomes, w2 \in Outcomes :
            LET batch == AppendSlice(batchInsertValues, nextCount)
                full  == batch.len = options.RowPerStatement
                io1   == IF full THEN writeBatchInsert(CurIO, Elems(batch), w1)
                                 ELSE CurIO
                sc    == statementCount + 1
                io2   == IF sc % StmtFlushEvery = 0 THEN Flush(io1, w2) ELSE io1
            IN /\ delivered' = Append(delivered, nextCount)
               /\ rowCount' = rowCount + 1
               /\ UNCHANGED <<nextCount, cursorErr>>
               /\ IF ~full
                    THEN /\ batchInsertValues' = batch
                         /\ pc' = "sqlNext"
                         /\ UNCHANGED <<statementCount, bufferedWriter,
                                        fileData, ioFailed, ret>>
                    ELSE IF io1.err
                    THEN /\ SetIO(io1)
                         /\ batchInsertValues' = batch
                         /\ Return(0, "write")
                         /\ UNCHANGED statementCount
                    ELSE /\ SetIO(io2)
                         /\ statementCount' = sc
                         /\ batchInsertValues' = ResetSlice(batch)
                         /\ pc' = "sqlNext"
                         /\ UNCHANGED ret
    /\ UNCHANGED <<libVars, cliVars, options, writer, fileState, fileCloses, comp,
                   closeLog, closeErr, sinkCloses, deferred, tzVars>>

\* lines 77-95: the last batch, the final flush, the cursor's terminal error
SqlFinal ==
    /\ pc = "sqlFinal"
    /\ \E w1 \in Outcomes, w2 \in Outcomes :
         LET rest == batchInsertValues.len > 0
             io1  == IF rest THEN writeBatchInsert(CurIO, Elems(batchInsertValues), w1)
                             ELSE CurIO
             io2  == Flush(io1, w2)
         IN IF rest /\ io1.err
              THEN /\ SetIO(io1)
                   /\ Return(0, "write")
                   /\ UNCHANGED statementCount
              ELSE /\ SetIO(io2)
                   /\ statementCount' = IF rest THEN statementCount + 1
                                                ELSE statementCount
                   /\ IF cursorErr THEN Return(rowCount, "iter")
                                   ELSE Return(rowCount, Nil)
    /\ UNCHANGED <<libVars, cliVars, options, writer, cursorVars, rowCount,
                   batchInsertValues, fileState, fileCloses, comp, closeLog,
                   closeErr, sinkCloses, deferred, tzVars>>

(***************************************************************************)
(* Time zone resolution (core/exporters/sql_exporter.go:484-498).          *)
(***************************************************************************)
\* zone names time.LoadLocation resolves, among those tried
ValidZones == {"UTC"}

\* ValidateTimeZone: empty is valid, else the zone must load
ValidateTimeZone(tz) == IF tz = "" \/ tz \in ValidZones THEN Nil ELSE "invalid timezone"

\* userTimeZoneFormat: local time for the empty zone; for a zone that does
\* not load, a logged warning and local time
userTimeZoneFormat(tz) ==
    IF tz = "" THEN [loc |-> "Local", warn |-> <<>>]
    ELSE IF tz \notin ValidZones
           THEN [loc |-> "Local", warn |-> <<"invalid timezone">>]
           ELSE [loc |-> tz, warn |-> <<>>]

SetTimeZone ==
    LET r == userTimeZoneFormat(options.TimeZone)
    IN /\ loc' = r.loc
       /\ warnings' = warnings \o r.warn

(***************************************************************************)
(* The delimited-text writer (exporters/csv_exporter.go:16-97).            *)
(***************************************************************************)
\* lines 37-52: the header line unless suppressed, then the time zone
CsvHeader ==
    /\ pc = "csvHeader"
    /\ \E w \in Outcomes :
         LET io1 == IF options.NoHeader THEN CurIO
                    ELSE WriteString(CurIO, Tok("hdr", <<>>), w)
         IN /\ SetIO(io1)
            /\ IF io1.err
                 THEN Return(0, "write") /\ UNCHANGED tzVars
                 ELSE pc' = "csvNext" /\ SetTimeZone /\ UNCHANGED ret
    /\ UNCHANGED <<libVars, cliVars, options, writer, cursorVars, localVars, fileState,
                   fileCloses, comp, closeLog, closeErr, sinkCloses, deferred>>

CsvNext ==
    /\ pc = "csvNext"
    /\ CursorNext("csvRow", "csvEnd")
    /\ UNCHANGED <<libVars, cliVars, options, writer, localVars, bufferedWriter,
                   fileVars, deferred, ret, ioFailed, tzVars>>

\* lines 60-79: one line per row, a flush every RowFlushEvery rows
CsvRow ==
    /\ pc = "csvRow"
    /\ \/ /\ Return(rowCount, "read")
          /\ UNCHANGED <<cursorVars, rowCount, bufferedWriter, fileData, ioFailed>>
       \/ \E w1 \in Outcomes, w2 \in Outcomes :
            LET rc  == rowCount + 1
                io1 == WriteString(CurIO, Tok("line", <<nextCount>>), w1)
                io2 == IF rc % RowFlushEvery = 0 THEN Flush(io1, w2) ELSE io1
            IN /\ delivered' = Append(delivered, nextCount)
               /\ rowCount' = rc
               /\ UNCHANGED <<nextCount, cursorErr>>
               /\ IF io1.err
                    THEN SetIO(io1) /\ Return(0, "write")
                    ELSE SetIO(io2) /\ pc' = "csvNext" /\ UNCHANGED ret
    /\ UNCHANGED <<libVars, cliVars, options, writer, statementCount, batchInsertValues,
                   fileState, fileCloses, comp, closeLog, closeErr, sinkCloses,
                   deferred, tzVars>>

\* lines 83-96: the cursor's terminal error, the final flush and its error
CsvEnd ==
    /\ pc = "csvEnd"
    /\ IF cursorErr
         THEN /\ Return(rowCount, "iter")
              /\ UNCHANGED <<bufferedWriter, fileData, ioFailed>>
         ELSE \E w \in Outcomes :
                LET io1 == Flush(CurIO, w)
                IN /\ SetIO(io1)
                   /\ IF io1.err THEN Return(rowCount, "flush")
                                 ELSE Return(rowCount, Nil)
    /\ UNCHANGED <<libVars, cliVars, options, writer, cursorVars, localVars, fileState,
                   fileCloses, comp, closeLog, closeErr, sinkCloses, deferred,
                   tzVars>>

(***************************************************************************)
(* The bulk-transfer path (exporters/csv_exporter.go:99-123).              *)
(***************************************************************************)
RECURSIVE Lines(_)
\* the lines of rows 1..n
Lines(n) == IF n = 0 THEN <<>> ELSE Append(Lines(n - 1), Tok("line", <<n>>))

\* CopyTo streams the server's output straight into the sink; it fails when
\* the server or the sink fails, after part of the output was written
CopyTo ==
    /\ pc = "copyTo"
    /\ \E n \in 0..MaxRows :
         LET full == (IF options.NoHeader THEN <<>> ELSE <<Tok("hdr", <<>>)>>)
                     \o Lines(n)
         IN \/ /\ SinkWritable
               /\ fileData' = fileData \o full
               /\ delivered' = RowsOf(full)
               /\ Return(n, Nil)
               /\ UNCHANGED ioFailed
            \/ \E m \in 0..Len(full), sinkFailure \in BOOLEAN :
                 /\ m < Len(full) \/ ~sinkFailure
                 /\ fileData' = fileData \o SubSeq(full, 1, m)
                 /\ delivered' = RowsOf(SubSeq(full, 1, m))
                 /\ ioFailed' = (ioFailed \/ sinkFailure)
                 /\ Return(0, IF sinkFailure THEN "write" ELSE "copy")
    /\ UNCHANGED <<libVars, cliVars, options, writer, nextCount, cursorErr, localVars,
                   bufferedWriter, fileState, fileCloses, comp, closeLog,
                   closeErr, sinkCloses, deferred, tzVars>>

(***************************************************************************)
(* The structured-document writer (jsonExporter.Export).                   *)
(***************************************************************************)
\* lines 37-43: the opening bracket, then the encoder with its time zone
JsonOpen ==
    /\ pc = "jsonOpen"
    /\ \E w \in Outcomes :
         LET io1 == WriteString(CurIO, Tok("open", <<>>), w)
         IN /\ SetIO(io1)
            /\ IF io1.err
                 THEN Return(0, "write") /\ UNCHANGED tzVars
                 ELSE pc' = "jsonNext" /\ SetTimeZone /\ UNCHANGED ret
    /\ UNCHANGED <<libVars, cliVars, options, writer, cursorVars, localVars, fileState,
                   fileCloses, comp, closeLog, closeErr, sinkCloses, deferred>>

JsonNext ==
    /\ pc = "jsonNext"
    /\ CursorNext("jsonRow", "jsonEnd")
    /\ UNCHANGED <<libVars, cliVars, options, writer, localVars, bufferedWriter,
                   fileVars, deferred, ret, ioFailed, tzVars>>

\* entry of a row written with a separator before it whatever its position
JsonRowTokensCommaAlways(count, r) ==
    <<Tok("comma", <<>>), Tok("indent", <<>>), Tok("obj", <<r>>)>>

\* lines 55-72: the separator before every entry but the first, then the
\* indentation and the entry
JsonRowTokens(count, r) ==
    (IF count > 0 THEN <<Tok("comma", <<>>)>> ELSE <<>>)
    \o <<Tok("indent", <<>>), Tok("obj", <<r>>)>>

\* lines 49-80: separator, indentation and entry of one row
JsonRow ==
    /\ pc = "jsonRow"
    /\ \/ /\ Return(rowCount, "read")
          /\ UNCHANGED <<cursorVars, rowCount, bufferedWriter, fileData, ioFailed>>
       \/ \E ws \in [1..3 -> Outcomes], w2 \in Outcomes :
            LET toks == JsonRowTokens(rowCount, nextCount)
                rc   == rowCount + 1
                io1  == WriteAll(CurIO, toks, ws)
                io2  == IF rc % RowFlushEvery = 0 THEN Flush(io1, w2) ELSE io1
            IN /\ delivered' = Append(delivered, nextCount)
               /\ UNCHANGED <<nextCount, cursorErr>>
               /\ IF io1.err
                    THEN SetIO(io1) /\ Return(rowCount, "write")
                         /\ UNCHANGED rowCount
                    ELSE SetIO(io2) /\ rowCount' = rc /\ pc' = "jsonNext"
                         /\ UNCHANGED ret
    /\ UNCHANGED <<libVars, cliVars, options, writer, statementCount, batchInsertValues,
                   fileState, fileCloses, comp, closeLog, closeErr, sinkCloses,
                   deferred, tzVars>>

\* lines 83-94: the cursor's terminal error, then the closing bracket
JsonEnd ==
    /\ pc = "jsonEnd"
    /\ IF cursorErr
         THEN /\ Return(rowCount, "iter")
              /\ UNCHANGED <<bufferedWriter, fileData, ioFailed>>
         ELSE \E w \in Outcomes :
                LET io1 == WriteString(CurIO, Tok("close", <<>>), w)
                IN /\ SetIO(io1)
                   /\ IF io1.err THEN Return(rowCount, "write")
                                 ELSE Return(rowCount, Nil)
    /\ UNCHANGED <<libVars, cliVars, options, writer, cursorVars, localVars, fileState,
                   fileCloses, comp, closeLog, closeErr, sinkCloses, deferred,
                   tzVars>>

(***************************************************************************)
(* The markup writer (xmlExporter.Export).  xml.NewEncoder wraps its       *)
(* writer with bufio.NewWriter, which returns the bufio.Writer it is given *)
(* when that is large enough: the encoder writes into bufferedWriter.      *)
(***************************************************************************)
\* number of columns of the result set
NumCols == 2

\* lines 36-56: the declaration, the root start tag, then the time zone
XmlHeader ==
    /\ pc = "xmlHeader"
    /\ \E ws \in [1..2 -> Outcomes] :
         LET io1 == WriteString(CurIO, Tok("xmldecl", <<>>), ws[1])
             io2 == WriteString(io1, Tok("rootstart", <<>>), ws[2])
         IN IF io1.err
              THEN SetIO(io1) /\ Return(0, "write") /\ UNCHANGED tzVars
              ELSE /\ SetIO(io2)
                   /\ IF io2.err
                        THEN Return(0, "write") /\ UNCHANGED tzVars
                        ELSE pc' = "xmlNext" /\ SetTimeZone /\ UNCHANGED ret
    /\ UNCHANGED <<libVars, cliVars, options, writer, cursorVars, localVars, fileState,
                   fileCloses, comp, closeLog, closeErr, sinkCloses, deferred>>

XmlNext ==
    /\ pc = "xmlNext"
    /\ CursorNext("xmlRow", "xmlEnd")
    /\ UNCHANGED <<libVars, cliVars, options, writer, localVars, bufferedWriter,
                   fileVars, deferred, ret, ioFailed, tzVars>>

\* the tokens of one row element: start tag, one element per column, end tag
XmlRowTokens(r) ==
    <<Tok("rowstart", <<r>>)>>
    \o [c \in 1..NumCols |-> Tok("elem", <<r, c>>)]
    \o <<Tok("rowend", <<r>>)>>

\* lines 63-115: one row element
XmlRow ==
    /\ pc = "xmlRow"
    /\ \/ /\ Return(0, "read")
          /\ UNCHANGED <<cursorVars, rowCount, bufferedWriter, fileData, ioFailed>>
       \/ \E ws \in [1..(NumCols + 2) -> Outcomes], w2 \in Outcomes :
            LET rc  == rowCount + 1
                io1 == WriteAll(CurIO, XmlRowTokens(nextCount), ws)
                io2 == IF rc % RowFlushEvery = 0 THEN Flush(io1, w2) ELSE io1
            IN /\ delivered' = Append(delivered, nextCount)
               /\ UNCHANGED <<nextCount, cursorErr>>
               /\ IF io1.err
                    THEN SetIO(io1) /\ Return(rowCount, "write")
                         /\ UNCHANGED rowCount
                    ELSE SetIO(io2) /\ rowCount' = rc /\ pc' = "xmlNext"
                         /\ UNCHANGED ret
    /\ UNCHANGED <<libVars, cliVars, options, writer, statementCount, batchInsertValues,
                   fileState, fileCloses, comp, closeLog, closeErr, sinkCloses,
                   deferred, tzVars>>

\* lines 119-134: the cursor's terminal error, the root end tag, the newline
XmlEnd ==
    /\ pc = "xmlEnd"
    /\ IF cursorErr
         THEN /\ Return(rowCount, "iter")
              /\ UNCHANGED <<bufferedWriter, fileData, ioFailed>>
         ELSE \E ws \in [1..2 -> Outcomes] :
                LET io1 == WriteString(CurIO, Tok("rootend", <<>>), ws[1])
                    io2 == WriteString(io1, Tok("newline", <<>>), ws[2])
                IN IF io1.err
                     THEN SetIO(io1) /\ Return(0, "write")
                     ELSE /\ SetIO(io2)
                          /\ IF io2.err THEN Return(0, "write")
                                        ELSE Return(rowCount, Nil)
    /\ UNCHANGED <<libVars, cliVars, options, writer, cursorVars, localVars, fileState,
                   fileCloses, comp, closeLog, closeErr, sinkCloses, deferred,
                   tzVars>>

(***************************************************************************)
(* Format dispatch (exporters/exporter.go:51-96).                          *)
(***************************************************************************)
FormatCSV == "csv"
FormatJSON == "json"
FormatXML == "xml"
FormatSQL == "sql"

\* dataExporter.Export: the writer of the format, or an error
Export ==
    /\ pc = "export"
    /\ IF options.Format \in {FormatCSV, FormatJSON, FormatXML, FormatSQL}
         THEN /\ writer' = options.Format
              /\ pc' = "create"
              /\ UNCHANGED ret
         ELSE /\ ret' = [rowCount |-> 0, err |-> "unsupported format"]
              /\ pc' = "returned"
              /\ UNCHANGED writer
    /\ UNCHANGED <<libVars, cliVars, options, cursorVars, localVars, bufferedWriter,
                   fileVars, deferred, ioFailed, tzVars>>

\* dataExporter.ExportCopy: the bulk-transfer path, for csv only
ExportCopy ==
    /\ pc = "exportCopy"
    /\ IF options.Format = FormatCSV
         THEN /\ writer' = "copy"
              /\ pc' = "create"
              /\ UNCHANGED ret
         ELSE /\ ret' = [rowCount |-> 0, err |-> "unsupported format"]
              /\ pc' = "returned"
              /\ UNCHANGED writer
    /\ UNCHANGED <<libVars, cliVars, options, cursorVars, localVars, bufferedWriter,
                   fileVars, deferred, ioFailed, tzVars>>

(***************************************************************************)
(* Direct call of Export / ExportCopy with an options record, as the       *)
(* package's tests do.  Options a format's writer never reads keep their   *)
(* default value.                                                           *)
(***************************************************************************)
ApiFormats == {"csv", "json", "xml", "sql", "txt"}
ApiCompressions == {"none", "gzip", "zip", "bzip2"}
ApiTables == {"", "t"}
ApiBatches == (-1)..MaxBatch
ApiZones == {"", "UTC", "Bad/Zone"}

ApiOptions ==
    {o \in [Format : ApiFormats, Delimiter : {","}, TableName : ApiTables,
            Compression : ApiCompressions, TimeZone : ApiZones,
            NoHeader : BOOLEAN, RowPerStatement : ApiBatches] :
        /\ o.Format # "sql" => o.TableName = "" /\ o.RowPerStatement = 1
        /\ o.Format # "csv" => ~o.NoHeader
        /\ o.Format \in {"sql", "txt"} => o.TimeZone = ""}

ApiExport ==
    /\ pc = "start"
    /\ entry' = "api"
    /\ \E o \in ApiOptions : options' = o
    /\ \E p \in {"export", "exportCopy"} : pc' = p
    /\ UNCHANGED <<libVars, flags, cliErr, writer, cursorVars, localVars,
                   bufferedWriter, fileVars, deferred, ret, ioFailed, tzVars>>

(***************************************************************************)
(* The command (main.go): runExport and its helpers.                       *)
(***************************************************************************)
\* flag values tried on the command line
CliQueries == {"", "q"}
CliFiles == {"", "f"}
CliFormats == {"csv", "CSV", "json", "xml", "sql", "txt"}
CliCompressions == {"none", "GZIP", "bzip2"}
CliTables == {"", "t"}
CliBatches == 0..MaxBatch
CliZones == {"", "Bad/Zone"}
CliDelimiters == {",", "\\t", "ab", ""}

CliFlags ==
    [sqlQuery : CliQueries, sqlFile : CliFiles, format : CliFormats,
     compression : CliCompressions, tableName : CliTables,
     rowPerStatement : CliBatches, timeFormat : {"yyyy-MM-dd HH:mm:ss"},
     timeZone : CliZones, delimiter : CliDelimiters, withCopy : BOOLEAN,
     noHeader : BOOLEAN]

\* ValidateTimeFormat: only the empty format fails to format and parse back
ValidateTimeFormat(f) == IF f = "" THEN "empty time format" ELSE Nil

\* validateExportParams: the first error found, and the flags as it leaves
\* them (format and compression are normalized in place)
validateExportParams(f) ==
    LET fmt == ToLowerTrim(f.format)
        c0  == ToLowerTrim(f.compression)
        cmp == IF c0 = "" THEN "none" ELSE c0
        f1  == [f EXCEPT !.format = fmt]
        f2  == [f1 EXCEPT !.compression = cmp]
    IN IF f.sqlQuery = "" /\ f.sqlFile = ""
         THEN [err |-> "no query", flags |-> f]
       ELSE IF f.sqlQuery # "" /\ f.sqlFile # ""
         THEN [err |-> "two queries", flags |-> f]
       ELSE IF fmt \notin {"csv", "json", "xml", "sql"}
         THEN [err |-> "invalid format", flags |-> f1]
       ELSE IF cmp \notin {"none", "gzip", "zip"}
         THEN [err |-> "invalid compression", flags |-> f2]
       ELSE IF fmt = "sql" /\ TrimSpace(f.tableName) = ""
         THEN [err |-> "table required", flags |-> f2]
       ELSE IF fmt = "sql" /\ f.rowPerStatement < 1
         THEN [err |-> "invalid batch size", flags |-> f2]
       ELSE IF f.timeFormat # "" /\ ValidateTimeFormat(f.timeFormat) # Nil
         THEN [err |-> "invalid time format", flags |-> f2]
       ELSE IF f.timeZone # "" /\ ValidateTimeZone(f.timeZone) # Nil
         THEN [err |-> "invalid timezone", flags |-> f2]
       ELSE [err |-> Nil, flags |-> f2]

\* number of characters of a delimiter string, after trimming
RuneCount(d) ==
    CASE d = ""    -> 0
      [] d = ","   -> 1
      [] d = ";"   -> 1
      [] d = " "   -> 1
      [] d = "\\t" -> 2
      [] d = "ab"  -> 2
      [] d = ",,"  -> 2
      [] d = " , " -> 3
      [] d = "   " -> 3
      [] d = "  \\t  " -> 6

\* parseDelimiter without the length check
parseDelimiterNoLengthCheck(delim) ==
    LET d == TrimSpace(delim)
    IN IF d = "" THEN [rune |-> "", err |-> "empty delimiter"]
       ELSE IF d = "\\t" THEN [rune |-> "TAB", err |-> Nil]
       ELSE [rune |-> d, err |-> Nil]

\* parseDelimiter: the tab token, or exactly one character
parseDelimiter(delim) ==
    LET d == TrimSpace(delim)
    IN IF d = "" THEN [rune |-> "", err |-> "empty delimiter"]
       ELSE IF d = "\\t" THEN [rune |-> "TAB", err |-> Nil]
       ELSE IF RuneCount(d) # 1 THEN [rune |-> "", err |-> "not one character"]
       ELSE [rune |-> d, err |-> Nil]

\* delimiter strings tried
DelimiterInputs == {",", ";", "\\t", "  \\t  ", " ", "", "   ", ",,", "ab", " , "}

CliFail(e) ==
    /\ cliErr' = e
    /\ pc' = "done"

\* runExport, lines 115-126: the flags as given, validated
RunExport ==
    /\ pc = "start"
    /\ entry' = "cli"
    /\ \E f \in CliFlags :
         LET v == validateExportParams(f)
         IN /\ flags' = v.flags
            /\ IF v.err # Nil THEN CliFail(v.err)
                              ELSE pc' = "cliSetup" /\ UNCHANGED cliErr
    /\ UNCHANGED <<libVars, options, writer, cursorVars, localVars, bufferedWriter,
                   fileVars, deferred, ret, ioFailed, tzVars>>

\* lines 128-158: the connection string (from the environment when --dsn is
\* absent) and the query text (read from the file when --sqlfile is given)
CliSetup ==
    /\ pc = "cliSetup"
    /\ \/ CliFail("configuration error")
       \/ flags.sqlFile # "" /\ CliFail("error reading SQL file")
       \/ pc' = "cliDelimiter" /\ UNCHANGED cliErr
    /\ UNCHANGED <<libVars, entry, flags, options, writer, cursorVars, localVars,
                   bufferedWriter, fileVars, deferred, ret, ioFailed, tzVars>>

\* lines 160-190: the delimiter, parsed for csv only; the connection; the
\* options record
CliOptions ==
    /\ pc = "cliDelimiter"
    /\ LET fmt == ToLowerTrim(flags.format)
           d   == IF fmt = "csv" THEN parseDelimiter(flags.delimiter)
                                 ELSE [rune |-> ",", err |-> Nil]
       IN \/ /\ d.err # Nil
             /\ CliFail("invalid delimiter")
             /\ UNCHANGED options
          \/ /\ d.err = Nil
             /\ CliFail("failed to connect to database")
             /\ UNCHANGED options
          \/ /\ d.err = Nil
             /\ options' = [Format |-> fmt, Delimiter |-> d.rune,
                            TableName |-> flags.tableName,
                            Compression |-> flags.compression,
                            TimeZone |-> flags.timeZone,
                            NoHeader |-> flags.noHeader,
                            RowPerStatement |-> flags.rowPerStatement]
             /\ pc' = "cliDispatch"
             /\ UNCHANGED cliErr
    /\ UNCHANGED <<libVars, entry, flags, writer, cursorVars, localVars,
                   bufferedWriter, fileVars, deferred, ret, ioFailed, tzVars>>

\* lines 192-205: the bulk-transfer path for csv with --with-copy, else the
\* query is executed and its cursor handed to Export
CliDispatch ==
    /\ pc = "cliDispatch"
    /\ IF options.Format = "csv" /\ flags.withCopy
         THEN pc' = "exportCopy" /\ UNCHANGED cliErr
         ELSE \/ CliFail("query execution failed")
              \/ pc' = "export" /\ UNCHANGED cliErr
    /\ UNCHANGED <<libVars, entry, flags, options, writer, cursorVars, localVars,
                   bufferedWriter, fileVars, deferred, ret, ioFailed, tzVars>>

\* lines 207-211: the export's error, else handleExportResult
CliFinish ==
    /\ pc = "returned"
    /\ entry = "cli"
    /\ cliErr' = IF ret.err # Nil THEN "export failed" ELSE Nil
    /\ pc' = "done"
    /\ UNCHANGED <<libVars, entry, flags, options, writer, cursorVars, localVars,
                   bufferedWriter, fileVars, deferred, ret, ioFailed, tzVars>>

Next ==
    \/ RunExport \/ CliSetup \/ CliOptions \/ CliDispatch \/ CliFinish
    \/ ApiExport
    \/ Export \/ ExportCopy
    \/ CreateOutputWriter
    \/ SqlBegin \/ SqlNext \/ SqlRow \/ SqlFinal
    \/ CsvHeader \/ CsvNext \/ CsvRow \/ CsvEnd
    \/ CopyTo
    \/ JsonOpen \/ JsonNext \/ JsonRow \/ JsonEnd
    \/ XmlHeader \/ XmlNext \/ XmlRow \/ XmlEnd
    \/ DeferredFlush \/ DeferredClose \/ CloseFinalize \/ CloseFile
    \/ DefersDone

Spec == Init /\ [][Next]_vars

(***************************************************************************)
(* Value formatting (core/exporters/sql_exporter.go:191-481).  A string is *)
(* a sequence of one-character strings.  A value as rows.Values() returns  *)
(* it, together with the column type that selects its formatting, is a     *)
(* record [t, s, e]: t the kind, s the text of a scalar, e the elements of *)
(* an array.                                                               *)
(***************************************************************************)
\* longest text tried
MaxStrLen == 2
\* most elements of an array tried
MaxElems == 2

\* characters of the texts tried: a letter and the single quote
Chars == {"a", "'"}

\* all strings over cs of length at most n
StrsUpTo(cs, n) == UNION {[1..k -> cs] : k \in 0..n}

NULL == <<"N", "U", "L", "L">>
null == <<"n", "u", "l", "l">>

\* texts tried: every short string, and the two spellings of the null token
Texts == StrsUpTo(Chars, MaxStrLen) \cup {NULL, null}

Val(t, s, e) == [t |-> t, s |-> s, e |-> e]
NilVal == Val("nil", <<>>, <<>>)

\* values tried: nil, text, bytea, integers, booleans, a jsonb string, arrays
Values ==
    {NilVal}
    \cup {Val("text", s, <<>>) : s \in Texts}
    \cup {Val("bytea", s, <<>>) : s \in Texts}
    \cup {Val("jsonb", s, <<>>) : s \in Texts}
    \cup {Val("int", s, <<>>) : s \in {<<"1">>, <<"2">>, <<"4", "2">>}}
    \cup {Val("bool", s, <<>>) : s \in {<<"t">>, <<"f">>}}
    \cup {Val("array", <<>>, e) : e \in StrsUpTo(StrsUpTo(Chars, 1), MaxElems)}

RECURSIVE ReplaceAll(_, _, _)
\* strings.ReplaceAll(s, old, new) for a one-character old
ReplaceAll(s, old, new) ==
    IF s = <<>> THEN <<>>
    ELSE (IF Head(s) = old THEN new ELSE <<Head(s)>>)
         \o ReplaceAll(Tail(s), old, new)

RECURSIVE Join(_, _)
\* strings.Join(elems, sep)
Join(elems, sep) ==
    IF elems = <<>> THEN <<>>
    ELSE IF Len(elems) = 1 THEN elems[1]
    ELSE elems[1] \o sep \o Join(Tail(elems), sep)

\* fmt.Sprintf("%v", v) of a scalar
Sprintv(v) ==
    CASE v.t = "nil"  -> <<"<", "n", "i", "l", ">">>
      [] v.t = "bool" -> IF v.s = <<"t">> THEN <<"t", "r", "u", "e">>
                                          ELSE <<"f", "a", "l", "s", "e">>
      [] OTHER        -> v.s

\* json.Marshal of a value: null, a number, a boolean, a quoted string (none
\* of the characters tried needs a JSON escape), an array of strings
Marshal(v) ==
    CASE v.t = "nil"   -> null
      [] v.t = "int"   -> v.s
      [] v.t = "bool"  -> Sprintv(v)
      [] v.t = "array" -> <<"[">> \o Join([i \in 1..Len(v.e) |->
                              <<"\"">> \o v.e[i] \o <<"\"">>], <<",">>) \o <<"]">>
      [] OTHER         -> <<"\"">> \o v.s \o <<"\"">>

\* the text of an array: {} or the elements joined by commas, in braces
ArrayText(v) ==
    IF Len(v.e) = 0 THEN <<"{", "}">>
    ELSE <<"{">> \o Join(v.e, <<",">>) \o <<"}">>

\* formatSQLValue: NULL for nil, casts by column type, then by Go type
formatSQLValue(v) ==
    CASE v.t = "nil"   -> NULL
      [] v.t = "bytea" -> <<"'">> \o ReplaceAll(v.s, "'", <<"'", "'">>)
                          \o <<"'", ":", ":", "b", "y", "t", "e", "a">>
      [] v.t = "bool"  -> Sprintv(v)
      [] v.t = "jsonb" -> <<"'">> \o Marshal(v)
                          \o <<"'", ":", ":", "j", "s", "o", "n", "b">>
      [] v.t = "int"   -> v.s
      [] v.t = "array" -> <<"'">> \o ArrayText(v) \o <<"'">>
      [] OTHER         -> <<"'">> \o ReplaceAll(v.s, "'", <<"'", "'">>)
                          \o <<"'">>

\* formatValueByOID: nil stays nil, bytea becomes a string, the other kinds
\* tried are returned as they are
formatValueByOID(v) ==
    IF v.t = "bytea" THEN Val("text", v.s, <<>>) ELSE v

\* formatJSONValue
formatJSONValue(v) == formatValueByOID(v)

\* formatCSVValue: the empty string for nil, else the text of the value
formatCSVValue(v) ==
    LET result == formatValueByOID(v)
    IN CASE result.t = "nil"   -> <<>>
         [] result.t = "array" -> ArrayText(result)
         [] result.t = "jsonb" -> result.s
         [] OTHER              -> Sprintv(result)

\* formatXMLValue: the empty string for nil, else the text of the value
formatXMLValue(v) ==
    LET result == formatValueByOID(v)
    IN CASE result.t = "nil"   -> <<>>
         [] result.t = "array" -> ArrayText(result)
         [] result.t = "jsonb" -> result.s
         [] OTHER              -> Sprintv(result)

(***************************************************************************)
(* Rows.  A result set has a list of column names and, per row, one value  *)
(* per column.                                                             *)
(***************************************************************************)
ColId == <<"i", "d">>
ColName == <<"n", "a", "m", "e">>

\* column names tried
ColumnNames == {ColId, ColName}

\* column lists tried: any order, repetitions included
ColumnLists == StrsUpTo(ColumnNames, NumCols)

\* cell values tried in whole rows
Cells == {NilVal, Val("int", <<"1">>, <<>>), Val("int", <<"2">>, <<>>),
          Val("text", <<"a">>, <<>>), Val("text", <<"a", ",">>, <<>>),
          Val("text", <<>>, <<>>)}

(***************************************************************************)
(* Structured-document entries.                                            *)
(***************************************************************************)
\* OrderedJsonEncoder.EncodeRow (part_012:28-65): one key/value pair per
\* column, written in the order of keys
EncodeRow(keys, values) ==
    [i \in 1..Len(keys) |->
        [key |-> keys[i], val |-> Marshal(formatJSONValue(values[i]))]]

\* the column names in the byte order encoding/json sorts map keys by
KeyOrder == <<ColId, ColName>>

\* last index of key in keys
LastIndex(keys, key) ==
    CHOOSE i \in 1..Len(keys) :
        keys[i] = key /\ \A j \in (i + 1)..Len(keys) : keys[j] # key

\* writeJSON (exporters/json_exporter.go:57-82): the row is put in a Go map,
\* a repeated key keeps its last value, and json.Encoder writes the map
\* with its keys sorted
EncodeMap(keys, values) ==
    LET present == {keys[i] : i \in 1..Len(keys)}
        sorted  == SelectSeq(KeyOrder, LAMBDA k : k \in present)
    IN [i \in 1..Len(sorted) |->
          [key |-> sorted[i],
           val |-> Marshal(formatJSONValue(values[LastIndex(keys, sorted[i])]))]]

(***************************************************************************)
(* Delimited-text records (encoding/csv Writer.Write).                     *)
(***************************************************************************)
\* delimiters tried
Delimiters == {",", ";"}

\* fieldNeedsQuotes: a field holding the delimiter, a quote or a line break,
\* or starting with a space
fieldNeedsQuotes(field, comma) ==
    /\ field # <<>>
    /\ \/ \E i \in 1..Len(field) : field[i] \in {comma, "\"", "\n", "\r"}
       \/ field[1] = " "

\* one field as written
CsvField(field, comma) ==
    IF fieldNeedsQuotes(field, comma)
      THEN <<"\"">> \o ReplaceAll(field, "\"", <<"\"", "\"">>) \o <<"\"">>
      ELSE field

\* Writer.Write(record): the fields joined by the delimiter, then a newline
CsvWrite(record, comma) ==
    Join([i \in 1..Len(record) |-> CsvField(record[i], comma)], <<comma>>)
    \o <<"\n">>

\* formatValue (exporters/common.go): nil stays nil, bytes become a string,
\* the other kinds tried are returned as they are
formatValue(v) ==
    IF v.t = "bytea" THEN Val("text", v.s, <<>>) ELSE v

\* the record of a row in writeCSV: fmt.Sprintf("%v", formatValue(v)) of
\* each value
CsvRecord(values) == [i \in 1..Len(values) |-> Sprintv(formatValue(values[i]))]

\* the lines writeCSV hands to the csv writer on a run without error: the
\* column names unless NoHeader is set, then the record of each row
writeCSV(noHeader, headers, rows, comma) ==
    (IF noHeader THEN <<>> ELSE <<CsvWrite(headers, comma)>>)
    \o [i \in 1..Len(rows) |-> CsvWrite(CsvRecord(rows[i]), comma)]

(***************************************************************************)
(* Markup row elements (part_009:68-108).                                  *)
(***************************************************************************)
XmlRowElement == <<"r", "o", "w">>

XTok(x, n, s) == [x |-> x, n |-> n, s |-> s]

\* xml.EscapeText on the characters tried
EscapeText(s) == ReplaceAll(s, "'", <<"&#39;">>)

\* isJSONLike: the value is written as it is, without escaping
isJSONLike(val) ==
    /\ val # <<>>
    /\ \/ val[1] \in {"{", "["}
       \/ \E i \in 1..(Len(val) - 1) : val[i] = "\"" /\ val[i + 1] = ":"

\* lines 74-103: the child element of one column
XmlField(field, v) ==
    LET val == formatXMLValue(v)
    IN IF val = <<>>
         THEN <<XTok("start", field, <<>>), XTok("end", field, <<>>)>>
       ELSE IF isJSONLike(val)
         THEN <<XTok("start", field, <<>>), XTok("raw", field, val),
                XTok("end", field, <<>>)>>
       ELSE <<XTok("start", field, <<>>), XTok("text", field, EscapeText(val)),
              XTok("end", field, <<>>)>>

RECURSIVE XmlFields(_, _)
XmlFields(fields, values) ==
    IF fields = <<>> THEN <<>>
    ELSE XmlField(Head(fields), Head(values))
         \o XmlFields(Tail(fields), Tail(values))

\* lines 68-108: the tokens of one row element
XmlRowElem(fields, values) ==
    <<XTok("start", XmlRowElement, <<>>)>> \o XmlFields(fields, values)
    \o <<XTok("end", XmlRowElement, <<>>)>>

\* cell values tried in the rows of the markup stream: nil, a text, and an
\* array whose text {a} is document-like
XmlCells == {NilVal, Val("text", <<"a">>, <<>>),
             Val("array", <<>>, << <<"a">> >>)}

\* what bufferedWriter may hold when a row starts: nothing, the
\* declaration, or the declaration and the root start tag
PendingTokens ==
    {<<>>, <<XTok("decl", <<>>, <<>>)>>,
     <<XTok("decl", <<>>, <<>>), XTok("start", <<"r", "e", "s">>, <<>>)>>}

\* a bufio.NewWriter that always allocates a buffer of its own
NewWriterOwnBuffer(w) == "encoder"

\* bufio.NewWriter(w), called by xml.NewEncoder(bufferedWriter) (line 33):
\* a writer that is a bufio.Writer of the default size is returned as it is
NewWriter(w) == IF w = "bufferedWriter" THEN w ELSE "encoder"

\* bufio.Writer.Flush of bufferedWriter on the stream: sink, then buffer
FlushStream(st) == [st EXCEPT !.sink = @ \o st.buf, !.buf = <<>>]

\* a write into bufferedWriter, which flushes first when it is full
WriteStream(st, t) ==
    LET f == IF Len(st.buf) >= BufCap THEN FlushStream(st) ELSE st
    IN [f EXCEPT !.buf = Append(@, t)]

RECURSIVE WriteTokens(_, _, _, _)
\* lines 68-108 on the byte stream: the tags go through the encoder, which
\* writes to encW, the raw text goes to bufferedWriter (line 91);
\* Encoder.EncodeToken does not flush, Encoder.EncodeElement flushes the
\* encoder's writer after the end tag (line 98)
WriteTokens(toks, prev, encW, st) ==
    IF toks = <<>> THEN st
    ELSE LET t   == Head(toks)
             st1 == IF t.x = "raw" \/ encW = "bufferedWriter"
                      THEN WriteStream(st, t)
                      ELSE [st EXCEPT !.enc = Append(@, t)]
             st2 == IF t.x = "end" /\ prev = "text"
                      THEN IF encW = "bufferedWriter"
                             THEN FlushStream(st1)
                             ELSE [st1 EXCEPT !.enc = <<>>,
                                              !.sink = @ \o st1.buf \o st1.enc,
                                              !.buf = <<>>]
                      ELSE st1
         IN WriteTokens(Tail(toks), t.x, encW, st2)

\* the bytes of one row as they reach the sink once bufferedWriter is
\* flushed, for a row that starts with pending in bufferedWriter
xmlStream(fields, values, pending) ==
    LET st == WriteTokens(XmlRowElem(fields, values), "none",
                          NewWriter("bufferedWriter"),
                          [enc |-> <<>>, buf |-> pending, sink |-> <<>>])
    IN st.sink \o st.buf

\* toString: the empty string for nil, else the text of the value
toString(v) ==
    LET formatted == formatValue(v)
    IN IF formatted.t = "nil" THEN <<>> ELSE Sprintv(formatted)

\* the orders in which a range over a map with the keys ks may visit them
MapOrders(ks) ==
    {o \in [1..Cardinality(ks) -> ks] :
        \A i, j \in 1..Cardinality(ks) : i # j => o[i] # o[j]}

\* Encoder.EncodeElement of a string: start tag, escaped text, end tag
EncodeElement(field, val) ==
    IF val = <<>>
      THEN <<XTok("start", field, <<>>), XTok("end", field, <<>>)>>
      ELSE <<XTok("start", field, <<>>), XTok("text", field, EscapeText(val)),
             XTok("end", field, <<>>)>>

RECURSIVE MarshalFields(_, _, _)
\* the children of a row written in the order the map is visited, each
\* key with the last value stored under it
MarshalFields(fields, values, order) ==
    IF order = <<>> THEN <<>>
    ELSE EncodeElement(Head(order),
                       toString(values[LastIndex(fields, Head(order))]))
         \o MarshalFields(fields, values, Tail(order))

\* writeXML (exporters/xml_exporter.go:76-81) puts the row in the map
\* XMLRow.Fields and XMLRow.MarshalXML (lines 18-36) ranges over the map
MarshalXML(fields, values, order) ==
    <<XTok("start", XmlRowElement, <<>>)>>
    \o MarshalFields(fields, values, order)
    \o <<XTok("end", XmlRowElement, <<>>)>>

(***************************************************************************)
(* Statement text (writeBatchInsert, quoteIdent).                          *)
(***************************************************************************)
RECURSIVE Split(_, _)
\* strings.Split(s, sep) for a one-character sep
Split(s, sep) ==
    IF \A i \in 1..Len(s) : s[i] # sep THEN <<s>>
    ELSE LET i == CHOOSE k \in 1..Len(s) :
                    s[k] = sep /\ \A j \in 1..(k - 1) : s[j] # sep
         IN <<SubSeq(s, 1, i - 1)>> \o Split(SubSeq(s, i + 1, Len(s)), sep)

\* quoteIdent: each dot-separated part in double quotes, quotes doubled
quoteIdent(s) ==
    LET parts == Split(s, ".")
    IN Join([i \in 1..Len(parts) |->
               <<"\"">> \o ReplaceAll(parts[i], "\"", <<"\"", "\"">>) \o <<"\"">>],
            <<".">>)

\* table names tried
TableNames == {<<"t">>, <<"s", ".", "t">>, <<"t", "\"">>}

RECURSIVE Tuples(_, _)
\* lines 111-117: one line per record, "," after each but the last, ";" there
Tuples(rows, i) ==
    IF i > Len(rows) THEN <<>>
    ELSE <<"\t(">> \o Join(rows[i], <<", ">>) \o <<")">>
         \o <<IF i = Len(rows) THEN ";" ELSE ",">> \o <<"\n">>
         \o Tuples(rows, i + 1)

\* statement text with the table name written as it is given
StatementTextBareTable(table, columns, rows) ==
    IF Len(rows) = 0 THEN <<>>
    ELSE <<"INSERT INTO ">> \o table \o <<" (">>
         \o Join(columns, <<", ">>) \o <<") VALUES\n">> \o Tuples(rows, 1)

\* writeBatchInsert lines 99-119: the text of one statement, nothing for no rows
StatementText(table, columns, rows) ==
    IF Len(rows) = 0 THEN <<>>
    ELSE <<"INSERT INTO ">> \o quoteIdent(table) \o <<" (">>
         \o Join(columns, <<", ">>) \o <<") VALUES\n">> \o Tuples(rows, 1)

\* sqlExporter.Export lines 32-36: the quoted column names
SqlColumns(fields) == [i \in 1..Len(fields) |-> quoteIdent(fields[i])]

\* sqlExporter.Export lines 46-56: the record of one row
SqlRecord(values) == [i \in 1..Len(values) |-> formatSQLValue(values[i])]

(***************************************************************************)
(* Date patterns (extractUserDateFormat).  A pattern is the sequence of    *)
(* its tokens and separators.                                              *)
(***************************************************************************)
\* longest pattern tried, in tokens and separators
MaxPattern == 3

DateTokens == {"yyyy", "yy", "MM", "dd"}
TimeTokens == {"HH", "mm", "ss"}
Separators == {" ", "-", ":"}

\* user patterns tried
Patterns == StrsUpTo({"yyyy", "MM", "dd", "HH", "mm", " ", "-", ":"}, MaxPattern)

RECURSIVE TrimLeft(_)
TrimLeft(s) == IF s # <<>> /\ Head(s) = " " THEN TrimLeft(Tail(s)) ELSE s

RECURSIVE TrimRight(_)
TrimRight(s) ==
    IF s # <<>> /\ s[Len(s)] = " " THEN TrimRight(SubSeq(s, 1, Len(s) - 1)) ELSE s

\* strings.TrimSpace on a pattern
TrimSpacePattern(s) == TrimRight(TrimLeft(s))

\* the end of the last date token of the pattern, -1 without one: the
\* largest idx + len(tok) over the last occurrences of the date tokens
LastDateEnd(userFmt) ==
    LET ends == {i \in 1..Len(userFmt) : userFmt[i] \in DateTokens}
    IN IF ends = {} THEN -1
       ELSE CHOOSE i \in ends : \A j \in ends : j <= i

\* extractUserDateFormat: the pattern up to the end of its last date token,
\* white space trimmed; the pattern itself when it has no date token
extractUserDateFormat(userFmt) ==
    LET last == LastDateEnd(userFmt)
    IN IF last = -1 THEN userFmt
       ELSE TrimSpacePattern(SubSeq(userFmt, 1, last))

(***************************************************************************)
(* Creation of the output sink as a function of the path and the options.  *)
(* A path is its base name followed by its extensions.                     *)
(***************************************************************************)
\* output paths tried
Paths == {<<"out">>, <<"out", ".gz">>, <<"out", ".GZ">>, <<"out", ".zip">>,
          <<"out", ".sql">>}

\* compression options tried
SinkCompressions == {"none", "gzip", "GZIP", "zip", " zip ", "bzip2"}

\* strings.ToLower on the extensions tried
ToLowerExt(x) == IF x = ".GZ" THEN ".gz" ELSE x

\* strings.HasSuffix(strings.ToLower(path), suffix)
HasSuffixFold(path, suffix) == ToLowerExt(path[Len(path)]) = suffix

\* path with the suffix of the compression unless it already ends with it
WithSuffix(path, suffix) ==
    IF HasSuffixFold(path, suffix) THEN path ELSE Append(path, suffix)

\* the result of createOutputWriter: the path of the file created (none:
\* the empty path), the state of the file handle and of the compression
\* layer, and the error
SinkResult(path, file, layer, err) ==
    [path |-> path, file |-> file, layer |-> layer, err |-> err]

\* createOutputWriter (exporters/compression.go:32-99): the suffix of the
\* compression is appended to the path, the file is created, then the
\* compression layer; when the zip entry cannot be created both are closed
createOutputWriter(path, compression, createOk, entryOk) ==
    LET c == ToLowerTrim(compression)
    IN CASE c = None ->
              IF createOk THEN SinkResult(path, "open", "absent", Nil)
              ELSE SinkResult(<<>>, "none", "absent", "create")
         [] c = GZIP ->
              IF createOk
                THEN SinkResult(WithSuffix(path, ".gz"), "open", "open", Nil)
              ELSE SinkResult(<<>>, "none", "absent", "create")
         [] c = ZIP ->
              IF ~createOk THEN SinkResult(<<>>, "none", "absent", "create")
              ELSE IF ~entryOk
                THEN SinkResult(WithSuffix(path, ".zip"), "closed", "closed",
                                "zip entry")
              ELSE SinkResult(WithSuffix(path, ".zip"), "open", "open", Nil)
         [] OTHER -> SinkResult(<<>>, "none", "absent", "unsupported compression")

\* the earlier createOutputWriter (exporters/xml_exporter.go:138-192): the
\* file is created at the path as given before the compression is looked
\* at, and an unsupported compression returns with the file left open
createOutputWriterCreateFirst(path, compression, createOk, entryOk) ==
    LET c == ToLowerTrim(compression)
    IN IF ~createOk THEN SinkResult(<<>>, "none", "absent", "create")
       ELSE CASE c = None -> SinkResult(path, "open", "absent", Nil)
              [] c = GZIP -> SinkResult(path, "open", "open", Nil)
              [] c = ZIP  ->
                   IF ~entryOk
                     THEN SinkResult(path, "closed", "closed", "zip entry")
                   ELSE SinkResult(path, "open", "open", Nil)
              [] OTHER -> SinkResult(path, "open", "absent",
                                     "unsupported compression")

(***************************************************************************)
(* The formatting functions applied to inputs drawn from the sets above:   *)
(* the initial state holds the input, one step applies one function.       *)
(***************************************************************************)
\* rows tried: one cell per column of a column list
RowInputs ==
    UNION {{[kind |-> "row", keys |-> ks, values |-> vs, comma |-> d] :
              vs \in [1..Len(ks) -> Cells], d \in Delimiters} :
           ks \in ColumnLists}

\* batches tried: a table, the column list id, name and up to MaxBatch rows
BatchInputs ==
    {[kind |-> "batch", table |-> t, keys |-> <<ColId, ColName>>, rows |-> rs] :
       t \in TableNames,
       rs \in UNION {[1..n -> [1..2 -> Cells]] : n \in 0..MaxBatch}}

\* sinks tried: a path, a compression option, whether os.Create and the
\* creation of the zip entry succeed
SinkInputs ==
    {[kind |-> "sink", path |-> p, compression |-> c, createOk |-> b1,
      entryOk |-> b2] :
       p \in Paths, c \in SinkCompressions, b1 \in BOOLEAN, b2 \in BOOLEAN}

\* rows of the markup stream tried: a column list, a cell per column, and
\* what the buffer holds when the row starts
XmlStreamInputs ==
    UNION {{[kind |-> "xmlrow", keys |-> ks, values |-> vs, pending |-> p] :
              vs \in [1..Len(ks) -> XmlCells], p \in PendingTokens} :
           ks \in ColumnLists}

FmtInit ==
    /\ ExportInit
    /\ exportersRegistry = EmptyRegistry
    /\ regResult = NoResult
    /\ \/ \E v \in Values :
            call = [fn |-> "none", arg |-> [kind |-> "value", v |-> v]]
       \/ \E r \in RowInputs : call = [fn |-> "none", arg |-> r]
       \/ \E b \in BatchInputs : call = [fn |-> "none", arg |-> b]
       \/ \E k \in SinkInputs : call = [fn |-> "none", arg |-> k]
       \/ \E x \in XmlStreamInputs : call = [fn |-> "none", arg |-> x]
       \/ \E d \in DelimiterInputs :
            call = [fn |-> "none", arg |-> [kind |-> "delimiter", delim |-> d]]
       \/ \E f \in Patterns :
            call = [fn |-> "none", arg |-> [kind |-> "pattern", userFmt |-> f]]

\* the input is of the kind the function takes and no function was applied
Ready(kind) == call.fn = "none" /\ call.arg.kind = kind

\* the record of one application of function fn to the input
Applied(fn, res) == [fn |-> fn, arg |-> call.arg, res |-> res]

FormatSQLValueCall ==
    /\ Ready("value")
    /\ call' = Applied("formatSQLValue", formatSQLValue(call.arg.v))
    /\ UNCHANGED <<exportVars, exportersRegistry, regResult>>

FormatCSVValueCall ==
    /\ Ready("value")
    /\ call' = Applied("formatCSVValue", formatCSVValue(call.arg.v))
    /\ UNCHANGED <<exportVars, exportersRegistry, regResult>>

FormatXMLValueCall ==
    /\ Ready("value")
    /\ call' = Applied("formatXMLValue", formatXMLValue(call.arg.v))
    /\ UNCHANGED <<exportVars, exportersRegistry, regResult>>

FormatJSONValueCall ==
    /\ Ready("value")
    /\ call' = Applied("formatJSONValue", Marshal(formatJSONValue(call.arg.v)))
    /\ UNCHANGED <<exportVars, exportersRegistry, regResult>>

EncodeRowCall ==
    /\ Ready("row")
    /\ call' = Applied("EncodeRow", EncodeRow(call.arg.keys, call.arg.values))
    /\ UNCHANGED <<exportVars, exportersRegistry, regResult>>

EncodeMapCall ==
    /\ Ready("row")
    /\ call' = Applied("writeJSON", EncodeMap(call.arg.keys, call.arg.values))
    /\ UNCHANGED <<exportVars, exportersRegistry, regResult>>

CsvWriteCall ==
    /\ Ready("row")
    /\ call' = Applied("writeCSV",
                       CsvWrite(CsvRecord(call.arg.values), call.arg.comma))
    /\ UNCHANGED <<exportVars, exportersRegistry, regResult>>

XmlRowCall ==
    /\ Ready("row")
    /\ call' = Applied("xmlRow", XmlRowElem(call.arg.keys, call.arg.values))
    /\ UNCHANGED <<exportVars, exportersRegistry, regResult>>

WriteBatchInsertCall ==
    /\ Ready("batch")
    /\ call' = Applied("writeBatchInsert",
                       StatementText(call.arg.table, SqlColumns(call.arg.keys),
                                     [i \in 1..Len(call.arg.rows) |->
                                        SqlRecord(call.arg.rows[i])]))
    /\ UNCHANGED <<exportVars, exportersRegistry, regResult>>

WriteCSVCall ==
    /\ Ready("batch")
    /\ \E noHeader \in BOOLEAN, comma \in Delimiters :
         call' = [fn |-> "writeCSVLines",
                  arg |-> [kind |-> "batch", table |-> call.arg.table,
                           keys |-> call.arg.keys, rows |-> call.arg.rows,
                           NoHeader |-> noHeader, comma |-> comma],
                  res |-> writeCSV(noHeader, call.arg.keys, call.arg.rows, comma)]
    /\ UNCHANGED <<exportVars, exportersRegistry, regResult>>

MarshalXMLCall ==
    /\ Ready("row")
    /\ \E order \in MapOrders({call.arg.keys[i] : i \in 1..Len(call.arg.keys)}) :
         call' = Applied("MarshalXML",
                         MarshalXML(call.arg.keys, call.arg.values, order))
    /\ UNCHANGED <<exportVars, exportersRegistry, regResult>>

CreateOutputWriterCall ==
    /\ Ready("sink")
    /\ call' = Applied("createOutputWriter",
                       createOutputWriter(call.arg.path, call.arg.compression,
                                          call.arg.createOk, call.arg.entryOk))
    /\ UNCHANGED <<exportVars, exportersRegistry, regResult>>

CreateOutputWriterCreateFirstCall ==
    /\ Ready("sink")
    /\ call' = Applied("createOutputWriterCreateFirst",
                       createOutputWriterCreateFirst(call.arg.path,
                           call.arg.compression, call.arg.createOk,
                           call.arg.entryOk))
    /\ UNCHANGED <<exportVars, exportersRegistry, regResult>>

XmlStreamCall ==
    /\ Ready("xmlrow")
    /\ call' = Applied("xmlStream",
                       xmlStream(call.arg.keys, call.arg.values,
                                 call.arg.pending))
    /\ UNCHANGED <<exportVars, exportersRegistry, regResult>>

ExtractUserDateFormatCall ==
    /\ Ready("pattern")
    /\ call' = Applied("extractUserDateFormat",
                       extractUserDateFormat(call.arg.userFmt))
    /\ UNCHANGED <<exportVars, exportersRegistry, regResult>>

ParseDelimiterCall ==
    /\ Ready("delimiter")
    /\ call' = Applied("parseDelimiter", parseDelimiter(call.arg.delim))
    /\ UNCHANGED <<exportVars, exportersRegistry, regResult>>

\* what a writer may write for an input: one text, or for the row of
\* XMLRow.MarshalXML one per order in which the map may be visited
Outputs(fn, arg) ==
    CASE fn = "EncodeRow" -> {EncodeRow(arg.keys, arg.values)}
      [] fn = "writeJSON" -> {EncodeMap(arg.keys, arg.values)}
      [] fn = "writeCSV"  -> {CsvWrite(CsvRecord(arg.values), arg.comma)}
      [] fn = "xmlRow"    -> {XmlRowElem(arg.keys, arg.values)}
      [] fn = "MarshalXML" ->
           {MarshalXML(arg.keys, arg.values, order) :
              order \in MapOrders({arg.keys[i] : i \in 1..Len(arg.keys)})}
      [] fn = "writeBatchInsert" ->
           {StatementText(arg.table, SqlColumns(arg.keys),
                          [i \in 1..Len(arg.rows) |-> SqlRecord(arg.rows[i])])}

\* the writers whose output is compared between two exports
Writers == {"EncodeRow", "writeJSON", "writeCSV", "xmlRow", "MarshalXML",
            "writeBatchInsert"}

\* a second export of the same input with the same writer: the record keeps
\* the output of the first export
ExportAgain ==
    /\ call.fn \in Writers
    /\ \E out \in Outputs(call.fn, call.arg) :
         call' = [fn |-> "again", writer |-> call.fn, arg |-> call.arg,
                  first |-> call.res, res |-> out]
    /\ UNCHANGED <<exportVars, exportersRegistry, regResult>>

FmtNext ==
    \/ ExportAgain
    \/ ExtractUserDateFormatCall \/ ParseDelimiterCall
    \/ CreateOutputWriterCall \/ CreateOutputWriterCreateFirstCall
    \/ XmlStreamCall
    \/ WriteCSVCall \/ MarshalXMLCall
    \/ FormatSQLValueCall \/ FormatCSVValueCall \/ FormatXMLValueCall
    \/ FormatJSONValueCall
    \/ EncodeRowCall \/ EncodeMapCall \/ CsvWriteCall \/ XmlRowCall
    \/ WriteBatchInsertCall

FmtSpec == FmtInit /\ [][FmtNext]_vars

(***************************************************************************)
(* The format registry (core/exporters/testing_helpers.go:44-79).          *)
(***************************************************************************)
\* names given to the registry: the constants the writers register under,
\* and other spellings of them
RegistryNames == {"csv", "CSV", "json", "JSON", "sql", " Sql "}

\* factories registered
Factories == {"f1", "f2"}

\* RegisterExporter that looks the name up before normalizing it
RegisterExporterRawLookup(reg, format, factory) ==
    IF format \in DOMAIN reg
      THEN [reg |-> reg, err |-> "already registered"]
      ELSE [reg |-> [n \in DOMAIN reg \cup {ToLowerTrim(format)} |->
                        IF n = ToLowerTrim(format) THEN factory ELSE reg[n]],
            err |-> Nil]

\* RegisterExporter: the name is lowered and trimmed; a name already in the
\* map is an error and the map is left as it is
RegisterExporter(reg, format, factory) ==
    LET f == ToLowerTrim(format)
    IN IF f \in DOMAIN reg
         THEN [reg |-> reg, err |-> "already registered"]
         ELSE [reg |-> [n \in DOMAIN reg \cup {f} |->
                           IF n = f THEN factory ELSE reg[n]],
               err |-> Nil]

\* GetExporter: the map is indexed with the name as given
GetExporter(reg, format) ==
    IF format \in DOMAIN reg
      THEN [factory |-> reg[format], err |-> Nil]
      ELSE [factory |-> Nil, err |-> "unsupported format"]

\* the process is running: no registration has panicked
Running == ~regResult.panic

\* a call of RegisterExporter
RegisterExporterCall ==
    /\ Running
    /\ \E format \in RegistryNames, factory \in Factories :
         LET r == RegisterExporter(exportersRegistry, format, factory)
         IN /\ exportersRegistry' = r.reg
            /\ regResult' = [op |-> "register", format |-> format,
                             factory |-> factory, err |-> r.err,
                             panic |-> FALSE, prev |-> exportersRegistry]
    /\ UNCHANGED <<exportVars, call>>

\* a call of MustRegisterExporter, as the init() of each writer makes it:
\* the error of RegisterExporter becomes a panic
MustRegisterExporterCall ==
    /\ Running
    /\ \E format \in RegistryNames, factory \in Factories :
         LET r == RegisterExporter(exportersRegistry, format, factory)
         IN /\ exportersRegistry' = r.reg
            /\ regResult' = [op |-> "must", format |-> format,
                             factory |-> factory, err |-> r.err,
                             panic |-> (r.err # Nil), prev |-> exportersRegistry]
    /\ UNCHANGED <<exportVars, call>>

\* a call of GetExporter
GetExporterCall ==
    /\ Running
    /\ \E format \in RegistryNames :
         LET r == GetExporter(exportersRegistry, format)
         IN regResult' = [op |-> "get", format |-> format,
                          factory |-> r.factory, err |-> r.err,
                          panic |-> FALSE, prev |-> exportersRegistry]
    /\ UNCHANGED <<exportVars, call, exportersRegistry>>

RegistryNext ==
    RegisterExporterCall \/ MustRegisterExporterCall \/ GetExporterCall

RegistrySpec == Init /\ [][RegistryNext]_vars

(***************************************************************************)
(* Properties.                                                             *)
(***************************************************************************)
\* the writer's call has returned
Returned == pc \in {"returned", "done"} /\ ret # NoRet

\* the sink was created: no error of createOutputWriter
SinkCreated ==
    /\ writer # "none"
    /\ fileState # "none"
    /\ ~(ret # NoRet /\ ret.err = "zip entry")

\* s is a prefix of t
IsPrefix(s, t) == Len(s) <= Len(t) /\ s = SubSeq(t, 1, Len(s))

\* ceil(r / b) for b >= 1
CeilDiv(r, b) == (r + b - 1) \div b

\* C1: for R delivered rows and batch size B >= 1 the statement generator
\* emits ceil(R/B) statements; every statement but the last holds B rows,
\* the last holds R mod B rows (B when B divides R); none for R = 0.  While
\* the loop runs every emitted statement holds exactly B rows.
C1_BatchCount ==
    (writer = "sql" /\ options.RowPerStatement >= 1) =>
        LET B  == options.RowPerStatement
            R  == Len(delivered)
            st == Stmts(Emitted)
        IN /\ pc \in {"sqlNext", "sqlRow", "sqlFinal"} =>
                \A i \in 1..Len(st) : Len(st[i]) = B
           /\ (Returned /\ ret.err \in {Nil, "iter"}) =>
                /\ Len(st) = CeilDiv(R, B)
                /\ \A i \in 1..Len(st) :
                      Len(st[i]) = IF i < Len(st) \/ R % B = 0 THEN B ELSE R % B

\* three rows in batches of two: a full statement and a short last one
C1_Witness ==
    /\ writer = "sql" /\ pc = "returned" /\ ret.err = Nil
    /\ options.RowPerStatement = 2
    /\ Len(delivered) = 3
    /\ Stmts(fileData) = << <<1, 2>>, <<3>> >>

\* C2: in every writer the rows of the output are the rows the cursor
\* delivered, each once and in delivery order: what has been emitted is
\* always a prefix of the delivery sequence, what reached the file is a
\* prefix of that, and once the cursor is drained without a write error the
\* emitted rows are exactly the delivered rows (for statements: the
\* concatenation of their row tuples).
C2_RowOrder ==
    /\ IsPrefix(RowsOf(Emitted), delivered)
    /\ IsPrefix(RowsOf(fileData), RowsOf(Emitted))
    /\ \A i \in 1..Len(delivered) : delivered[i] = i
    /\ (Returned /\ ret.err \in {Nil, "iter", "flush"}) =>
          RowsOf(Emitted) = delivered

\* the batch slice was reused after a full statement, and the rows of both
\* statements are in order
C2_Witness ==
    /\ writer = "sql" /\ Returned /\ ret.err = Nil
    /\ batchInsertValues.len = 1 /\ Len(batchInsertValues.arr) = 2
    /\ batchInsertValues.arr[2] = 2
    /\ RowsOf(fileData) = <<1, 2, 3>>

\* C3: once created, the sink is closed exactly once before the export call
\* returns, on every exit path; the file under it is closed exactly once too
C3_SinkClosedOnce ==
    /\ fileCloses <= 1
    /\ sinkCloses <= 1
    /\ (pc \in {"returned", "done"} /\ fileState # "none") =>
          (fileState = "closed" /\ fileCloses = 1)
    /\ (pc \in {"returned", "done"} /\ SinkCreated) => sinkCloses = 1

\* an export that ended on a write error has closed its sink once
C3_Witness ==
    /\ pc = "returned" /\ ret.err = "write"
    /\ sinkCloses = 1 /\ fileCloses = 1 /\ fileState = "closed"

\* C4: a failure while writing to, flushing or closing the sink makes the
\* export call return an error
C4_IOFailureSurfaced ==
    (Returned /\ ioFailed) => ret.err # Nil

\* C5: an export aborted by a write failure returns the number of rows
\* written before the failure: at least the rows that reached the file, at
\* most the rows the writer had emitted
C5_PartialRowCount ==
    (Returned /\ ret.err = "write") =>
        /\ Len(RowsOf(fileData)) <= ret.rowCount
        /\ ret.rowCount <= Len(RowsOf(Emitted))

\* C6: closing a compressed sink finalizes the framing before the file is
\* closed: the file is never closed while the compression layer is open
C6_FinalizeBeforeFileClose ==
    /\ (comp # "absent" /\ fileState = "closed") => comp = "closed"
    /\ \A i \in 1..Len(closeLog) :
          (comp # "absent" /\ closeLog[i].step = "file") =>
              (i = 2 /\ closeLog[1].step = "finalize")

\* the Close of a compressed sink has run both steps
C6_Witness ==
    /\ sinkCloses = 1 /\ comp = "closed" /\ fileState = "closed"
    /\ Len(closeLog) = 2
    /\ closeLog[1].step = "finalize" /\ closeLog[2].step = "file"

\* C7: when a compressed sink is closed the first error wins and the file
\* is closed whatever the finalization returned: Close returns the
\* compression error if finalizing failed, else the file's error if its
\* close failed, else nil
C7_FirstCloseErrorWins ==
    (sinkCloses = 1 /\ comp # "absent") =>
        /\ (Len(closeLog) >= 1 /\ ~closeLog[1].ok /\ pc = "returned") =>
              (fileState = "closed" /\ fileCloses = 1)
        /\ Len(closeLog) = 2 =>
              closeErr = IF ~closeLog[1].ok THEN "compress"
                         ELSE IF ~closeLog[2].ok THEN "file" ELSE Nil

\* finalization failed, then the file's close failed as well
C7_Witness ==
    /\ sinkCloses = 1 /\ Len(closeLog) = 2
    /\ closeLog[1] = [step |-> "finalize", ok |-> FALSE]
    /\ closeLog[2] = [step |-> "file", ok |-> FALSE]
    /\ closeErr = "compress" /\ fileState = "closed"

\* the configuration errors of the command, from the flags
InvalidFormat == ToLowerTrim(flags.format) \notin {"csv", "json", "xml", "sql"}
InvalidCompression ==
    ToLowerTrim(flags.compression) \notin {"", "none", "gzip", "zip"}
MissingTable == ToLowerTrim(flags.format) = "sql" /\ TrimSpace(flags.tableName) = ""
NonPositiveBatch == flags.rowPerStatement < 1
MalformedDelimiter ==
    LET d == TrimSpace(flags.delimiter)
    IN d = "" \/ (d # "\\t" /\ RuneCount(d) # 1)

\* no row was read and nothing was written
NothingProcessed ==
    /\ nextCount = 0 /\ delivered = <<>>
    /\ fileData = <<>> /\ bufferedWriter.buf = <<>>

\* C8 as stated: any of the five configuration errors ends the command with
\* an error before a row is read or a byte written
C8_ConfigErrorsFirst ==
    (entry = "cli" /\ (InvalidFormat \/ InvalidCompression \/ MissingTable
                       \/ NonPositiveBatch \/ MalformedDelimiter)) =>
        (NothingProcessed /\ (pc = "done" => cliErr # Nil))

\* C8 amended: the batch size counts for the statement format only and the
\* delimiter for delimited text only
C8_ConfigErrorsFirstScoped ==
    (entry = "cli" /\
     (\/ InvalidFormat
      \/ InvalidCompression
      \/ MissingTable
      \/ (ToLowerTrim(flags.format) = "sql" /\ NonPositiveBatch)
      \/ (ToLowerTrim(flags.format) = "csv" /\ MalformedDelimiter))) =>
        (NothingProcessed /\ (pc = "done" => cliErr # Nil))

\* a delimited-text export refused for its delimiter
C8_Witness ==
    /\ entry = "cli" /\ pc = "done" /\ cliErr = "invalid delimiter"
    /\ flags.delimiter = "ab" /\ NothingProcessed

\* C9: the statement generator, invoked with an empty table name or a batch
\* size below 1, returns an error and emits no statement
C9_WriterRejectsBadOptions ==
    (writer = "sql" /\ (TrimSpace(options.TableName) = ""
                        \/ options.RowPerStatement < 1)) =>
        /\ Stmts(Emitted) = <<>>
        /\ Returned => ret.err # Nil

\* the time zone name the export was given
SuppliedZone ==
    IF entry = "cli" THEN flags.timeZone
    ELSE IF entry = "api" THEN options.TimeZone ELSE ""

\* C10: a time zone name that does not resolve never aborts the export: no
\* error is returned for it, and where the zone is used a warning is
\* recorded and local time is taken
C10_InvalidTimezoneNonFatal ==
    (SuppliedZone # "" /\ SuppliedZone \notin ValidZones) =>
        /\ cliErr # "invalid timezone"
        /\ loc # "unset" => (loc = "Local" /\ warnings # <<>>)

\* the tokens written through the sink, without the archive framing
Payload(toks) == SelectSeq(toks, LAMBDA t : t.k \notin {"zentry", "ztrailer"})

RECURSIVE XmlRows(_)
\* the row elements of the given rows, in order
XmlRows(rs) ==
    IF rs = <<>> THEN <<>> ELSE XmlRowTokens(Head(rs)) \o XmlRows(Tail(rs))

\* the complete document for the given rows
XmlDocument(rs) ==
    <<Tok("xmldecl", <<>>), Tok("rootstart", <<>>)>> \o XmlRows(rs)
    \o <<Tok("rootend", <<>>), Tok("newline", <<>>)>>

\* C11: after a markup export that returned no error, the closed sink holds
\* the declaration, the root start tag, the row elements, the root end tag
\* and the final newline, in this order
C11_MarkupReachesSink ==
    (writer = "xml" /\ pc = "returned" /\ ret.err = Nil) =>
        Payload(fileData) = XmlDocument(delivered)


\* the keys of a structured-document entry, in the order written
EntryKeys(e) == [i \in 1..Len(e) |-> e[i].key]

\* C12: every structured-document entry lists its keys in column order, for
\* any column list, whatever order the mapping type of the language
\* iterates or sorts in
C12_KeysInColumnOrder ==
    call.fn \in {"EncodeRow", "writeJSON"} =>
        EntryKeys(call.res) = call.arg.keys


\* C13: registry lookups are case-normalized: a lookup of a registered
\* format under any spelling of its name returns that format's factory
C13_LookupCaseNormalized ==
    (regResult.op = "get"
     /\ ToLowerTrim(regResult.format) \in DOMAIN exportersRegistry) =>
        /\ regResult.err = Nil
        /\ regResult.factory = exportersRegistry[ToLowerTrim(regResult.format)]

\* C14: registering a name that is, after normalization, already registered
\* fails - with a panic through MustRegisterExporter - and leaves the
\* registry, the earlier factory included, as it was
C14_DuplicateRejected ==
    (regResult.op \in {"register", "must"}
     /\ ToLowerTrim(regResult.format) \in DOMAIN regResult.prev) =>
        /\ regResult.err # Nil
        /\ regResult.op = "must" => regResult.panic
        /\ exportersRegistry = regResult.prev

\* csv is registered, then CSV with another factory through the
\* must-register entry point
C14_Witness ==
    /\ regResult.op = "must" /\ regResult.panic
    /\ regResult.format = "CSV" /\ regResult.factory = "f2"
    /\ "csv" \in DOMAIN exportersRegistry
    /\ exportersRegistry["csv"] = "f1"


\* the null token of the format a value formatter belongs to
NullToken(fn) ==
    CASE fn = "formatSQLValue"  -> NULL
      [] fn = "formatJSONValue" -> null
      [] OTHER                  -> <<>>

\* the record of a row with an empty field for each null value
EmptyForNull(values) ==
    [i \in 1..Len(values) |->
        IF values[i] = NilVal THEN <<>> ELSE CsvRecord(values)[i]]

\* C15: in each of the four formats a null value renders as the null token
\* of the format - the unquoted NULL keyword in statements, null in JSON,
\* the empty field in CSV, the empty content in XML - and never as a word
\* that reads as data; a value that is not null never renders as the NULL
\* keyword or the JSON null; the CSV line of a row has an empty field for
\* each null value
C15_NullToken ==
    /\ (call.fn \in {"formatSQLValue", "formatJSONValue",
                     "formatCSVValue", "formatXMLValue"}) =>
          /\ call.arg.v = NilVal => call.res = NullToken(call.fn)
          /\ (call.arg.v # NilVal
              /\ call.fn \in {"formatSQLValue", "formatJSONValue"})
                => call.res \notin {NULL, null}
    /\ call.fn = "writeCSV" =>
          call.res = CsvWrite(EmptyForNull(call.arg.values), call.arg.comma)

RECURSIVE ParseLiteral(_)
\* reading a statement literal after its opening quote: two quotes are one
\* quote of the text, a single quote ends the literal
ParseLiteral(s) ==
    IF s = <<>> THEN [ok |-> FALSE, text |-> <<>>, rest |-> <<>>]
    ELSE IF Head(s) # "'"
      THEN LET r == ParseLiteral(Tail(s))
           IN [r EXCEPT !.text = <<Head(s)>> \o @]
    ELSE IF Len(s) >= 2 /\ s[2] = "'"
      THEN LET r == ParseLiteral(SubSeq(s, 3, Len(s)))
           IN [r EXCEPT !.text = <<"'">> \o @]
    ELSE [ok |-> TRUE, text |-> <<>>, rest |-> Tail(s)]

\* the text a literal of the value carries, and the cast that follows it
LiteralText(v) ==
    CASE v.t = "jsonb" -> Marshal(v)
      [] v.t = "array" -> ArrayText(v)
      [] OTHER         -> v.s

LiteralCast(v) ==
    CASE v.t = "jsonb" -> <<":", ":", "j", "s", "o", "n", "b">>
      [] v.t = "bytea" -> <<":", ":", "b", "y", "t", "e", "a">>
      [] OTHER         -> <<>>

\* C16: every statement literal that carries text is a quoted string in
\* which each single quote of the text is doubled, so that reading the
\* literal back gives exactly the text (O'Brien is written 'O''Brien')
C16_QuoteDoubling ==
    (call.fn = "formatSQLValue"
     /\ call.arg.v.t \in {"text", "bytea", "jsonb", "array"}) =>
        LET p == ParseLiteral(Tail(call.res))
        IN /\ Head(call.res) = "'"
           /\ p.ok
           /\ p.text = LiteralText(call.arg.v)
           /\ p.rest = LiteralCast(call.arg.v)


\* the rows (1, "a"), (2, null)
ScenarioRows ==
    <<<<Val("int", <<"1">>, <<>>), Val("text", <<"a">>, <<>>)>>,
      <<Val("int", <<"2">>, <<>>), NilVal>>>>

\* C17: the CSV writer writes the header line - the column names joined by
\* the delimiter - once, before any row, exactly when the header is not
\* suppressed, also when there is no row, and then one line per row; the
\* rows (1, "a"), (2, null) with delimiter ',' and the header give the
\* lines id,name / 1,a / 2,
C17_HeaderThenRows ==
    call.fn = "writeCSVLines" =>
        LET h == IF call.arg.NoHeader THEN 0 ELSE 1
        IN /\ Len(call.res) = h + Len(call.arg.rows)
           /\ ~call.arg.NoHeader =>
                 call.res[1] = Join(call.arg.keys, <<call.arg.comma>>) \o <<"\n">>
           /\ (~call.arg.NoHeader /\ call.arg.comma = ","
               /\ call.arg.rows = ScenarioRows) =>
                 call.res = << <<"i", "d", ",", "n", "a", "m", "e", "\n">>,
                               <<"1", ",", "a", "\n">>,
                               <<"2", ",", "\n">> >>


\* the positions of the start tags of the children of a row element
ChildStarts(elem) ==
    SelectSeq([i \in 1..Len(elem) |-> i],
              LAMBDA i : elem[i].x = "start" /\ elem[i].n # XmlRowElement)

\* C18: a row element of the XML output has exactly one child element per
\* column, in the order of the columns; the child of a null value is an
\* empty element - start tag, end tag, nothing between - and is not left out
C18_OneChildPerColumn ==
    call.fn \in {"xmlRow", "MarshalXML"} =>
        LET starts == ChildStarts(call.res)
        IN /\ [i \in 1..Len(starts) |-> call.res[starts[i]].n] = call.arg.keys
           /\ \A i \in 1..Len(call.arg.keys) :
                 (i <= Len(starts) /\ call.arg.values[i] = NilVal) =>
                     call.res[starts[i] + 1] = XTok("end", call.arg.keys[i], <<>>)


RECURSIVE JsonEntries(_, _)
\* the entries of the rows rs, the k-th of the document first: a comma
\* before every entry but the first of the document
JsonEntries(rs, k) ==
    IF rs = <<>> THEN <<>>
    ELSE (IF k > 1 THEN <<Tok("comma", <<>>)>> ELSE <<>>)
         \o <<Tok("indent", <<>>), Tok("obj", <<Head(rs)>>)>>
         \o JsonEntries(Tail(rs), k + 1)

JsonDocument(rs) ==
    <<Tok("open", <<>>)>> \o JsonEntries(rs, 1) \o <<Tok("close", <<>>)>>

\* the commas of a token sequence
Commas(toks) == SelectSeq(toks, LAMBDA t : t.k = "comma")

\* C19: for every number n >= 0 of rows, a JSON export that ends without an
\* error has written the opening bracket and newline, the n entries with a
\* comma between two entries - n-1 commas, none before the first entry and
\* none after the last - and the newline, closing bracket and newline; while
\* it runs, what it has written is a beginning of that document
C19_ArrayShape ==
    writer = "json" =>
        /\ IsPrefix(Payload(Emitted), JsonDocument(delivered))
        /\ (pc = "returned" /\ ret.err = Nil) =>
              /\ Payload(Emitted) = JsonDocument(delivered)
              /\ Len(delivered) > 0 =>
                    Len(Commas(Payload(Emitted))) = Len(delivered) - 1
              /\ Len(delivered) = 0 =>
                    Payload(Emitted) = <<Tok("open", <<>>), Tok("close", <<>>)>>

\* three rows were exported and the whole document is in the file
C19_Witness ==
    /\ writer = "json" /\ pc = "returned" /\ ret.err = Nil
    /\ Len(delivered) = 3
    /\ Payload(fileData) = JsonDocument(delivered)
    /\ Len(Commas(fileData)) = 2


\* the positions in a statement where a row tuple is closed
TupleEnds(stmt) ==
    SelectSeq([i \in 1..Len(stmt) |-> i], LAMBDA i : stmt[i] = ")")

\* a statement that opens with the two keywords as given, the quoted table
\* name and the quoted column list, and goes on with one tuple per row,
\* a comma after each tuple but the last and the terminator after the last
StatementForm(insertInto, values, stmt, table, keys, rows) ==
    LET ends == TupleEnds(stmt)
    IN /\ IsPrefix(<<insertInto>> \o quoteIdent(table) \o <<" (">>
                   \o Join([i \in 1..Len(keys) |-> quoteIdent(keys[i])], <<", ">>)
                   \o <<values>>, stmt)
       /\ Len(SelectSeq(stmt, LAMBDA c : c = "\t(")) = Len(rows)
       /\ Len(ends) = Len(rows)
       /\ \A k \in 1..Len(ends) :
             /\ stmt[ends[k] + 1] = (IF k = Len(rows) THEN ";" ELSE ",")
             /\ stmt[ends[k] + 2] = "\n"
       /\ Len(SelectSeq(stmt, LAMBDA c : c = ";")) = 1

\* the statement of the row (2, null) for table t, with the keywords as given
ScenarioStatement(insertInto, values) ==
    <<insertInto, "\"", "t", "\"", " (", "\"", "i", "d", "\"", ", ",
      "\"", "n", "a", "m", "e", "\"", values,
      "\t(", "2", ", ", "N", "U", "L", "L", ")", ";", "\n">>

\* the batch of the second statement of the scenario: table t, row (2, null)
ScenarioBatch ==
    /\ call.arg.table = <<"t">>
    /\ call.arg.rows = <<<<Val("int", <<"2">>, <<>>), NilVal>>>>

C21_SuffixAppended ==
    (call.fn \in {"createOutputWriter", "createOutputWriterCreateFirst"}
     /\ ToLowerTrim(call.arg.compression) = GZIP
     /\ ~HasSuffixFold(call.arg.path, ".gz")
     /\ call.res.err = Nil) =>
        /\ call.res.path = Append(call.arg.path, ".gz")
        /\ call.res.file = "open"
        /\ call.res.layer = "open"


RECURSIVE DatePrefix(_)
\* the longest beginning of a pattern made of date tokens and separators
DatePrefix(s) ==
    IF s # <<>> /\ Head(s) \in DateTokens \cup Separators
      THEN <<Head(s)>> \o DatePrefix(Tail(s))
      ELSE <<>>

RECURSIVE TrimSeparators(_)
\* a pattern without the separators at its end
TrimSeparators(s) ==
    IF s # <<>> /\ s[Len(s)] \in Separators
      THEN TrimSeparators(SubSeq(s, 1, Len(s) - 1))
      ELSE s

\* C22: for every user pattern that has a date part, the pattern used for
\* date columns is the longest beginning of the user pattern that holds
\* date tokens only, without the separators at its end
\* (yyyy-MM-dd HH:mm gives yyyy-MM-dd)
C22_DatePrefix ==
    (call.fn = "extractUserDateFormat"
     /\ \E i \in 1..Len(call.arg.userFmt) : call.arg.userFmt[i] \in DateTokens) =>
        call.res = TrimLeft(TrimSeparators(DatePrefix(call.arg.userFmt)))


\* C23 as stated, on the delimiter as given: the tab token gives the tab
\* character; an empty delimiter and every other delimiter that is not
\* exactly one character are rejected; an accepted single character is
\* returned unchanged
C23_DelimiterAsGiven ==
    call.fn = "parseDelimiter" =>
        LET d == call.arg.delim
        IN /\ d = "\\t" => call.res = [rune |-> "TAB", err |-> Nil]
           /\ d = "" => call.res.err # Nil
           /\ (d # "\\t" /\ RuneCount(d) # 1) => call.res.err # Nil
           /\ (d # "\\t" /\ call.res.err = Nil) => call.res.rune = d

\* C23: delimiter validation works on the delimiter without the white space
\* around it: it rejects a delimiter that is empty then, resolves the tab
\* token to the tab character, rejects every other delimiter that is not
\* exactly one character, and returns a single character unchanged
C23_DelimiterTrimmed ==
    call.fn = "parseDelimiter" =>
        LET d == TrimSpace(call.arg.delim)
        IN /\ d = "\\t" => call.res = [rune |-> "TAB", err |-> Nil]
           /\ d = "" => call.res.err # Nil
           /\ (d # "\\t" /\ RuneCount(d) # 1) => call.res.err # Nil
           /\ (d # "\\t" /\ RuneCount(d) = 1) =>
                 call.res = [rune |-> d, err |-> Nil]

\* a delimiter of two characters was rejected
C23_Witness ==
    /\ call.fn = "parseDelimiter"
    /\ call.arg.delim = ",,"
    /\ call.res.err # Nil


\* C24: two exports of the same rows and columns with the same options and
\* the same writer give the same output, character by character
C24_SameOutputTwice ==
    call.fn = "again" => call.res = call.first



\* C25: an export that succeeded returns the number of rows the cursor
\* delivered, and that is the number of row records it wrote: the rows of
\* the emitted output are the delivered rows, they all reached the file
\* unless an input/output failure went unreported, and at one row per
\* statement there are as many statements as rows
C25_CountMatchesRows ==
    (Returned /\ ret.err = Nil) =>
        /\ ret.rowCount = Len(delivered)
        /\ Len(RowsOf(Emitted)) = ret.rowCount
        /\ ~ioFailed => Len(RowsOf(fileData)) = ret.rowCount
        /\ (writer = "sql" /\ options.RowPerStatement = 1) =>
              Len(Stmts(Emitted)) = ret.rowCount

\* three rows exported one per statement: a count of three and three
\* statements in the file
C25_Witness ==
    /\ writer = "sql" /\ pc = "returned" /\ ret.err = Nil
    /\ options.RowPerStatement = 1
    /\ ret.rowCount = 3 /\ Len(delivered) = 3
    /\ Len(Stmts(fileData)) = 3


\* C26: on every exit path of every writer the write buffer has been
\* flushed when the Close of the sink starts (it is empty, or the sink has
\* refused a write and the buffer is in its error state), nothing is put
\* in the buffer or flushed from it afterwards, the only bytes the file
\* receives after that are the trailer of the compression layer, and the
\* file receives nothing once it is closed
C26_FlushBeforeClose ==
    [][/\ sinkCloses' > sinkCloses =>
             /\ bufferedWriter.buf = <<>> \/ bufferedWriter.err
             /\ \A i \in 1..Len(deferred') : deferred'[i] # "flush"
       /\ sinkCloses >= 1 =>
             /\ bufferedWriter' = bufferedWriter
             /\ Payload(fileData') = Payload(fileData)
       /\ fileState = "closed" => fileData' = fileData]_vars

\* a compressed delimited export of three rows after its deferred calls:
\* the rows were flushed, then the trailer written, then the file closed
C26_Witness ==
    /\ writer = "csv" /\ pc = "returned" /\ ret.err = Nil
    /\ sinkCloses = 1 /\ fileState = "closed" /\ comp = "closed"
    /\ bufferedWriter.buf = <<>> /\ ~bufferedWriter.err
    /\ RowsOf(fileData) = <<1, 2, 3>>
    /\ fileData[Len(fileData)] = Tok("ztrailer", <<>>)


\* C27: when the cursor ends early with an error after delivering k rows,
\* found when the values of a row are read or as the terminal error of the
\* cursor, the writer returns that error with the row count k and the
\* output it has emitted holds exactly the k delivered rows
C27_CursorErrorKeepsRows ==
    (Returned /\ ret.err \in {"read", "iter"}) =>
        /\ ret.rowCount = Len(delivered)
        /\ RowsOf(Emitted) = delivered


\* C28: in the byte stream of a markup row the raw text of a document-like
\* value comes right after the start tag of its own column element and
\* right before that element's end tag, whatever bufferedWriter held when
\* the row started and wherever it was flushed
C28_RawTextInsideElement ==
    call.fn = "xmlStream" =>
        /\ Len(call.res) = Len(call.arg.pending)
                           + Len(XmlRowElem(call.arg.keys, call.arg.values))
        /\ \A i \in 1..Len(call.res) :
              call.res[i].x = "raw" =>
                 /\ i > 1 /\ i < Len(call.res)
                 /\ call.res[i - 1] = XTok("start", call.res[i].n, <<>>)
                 /\ call.res[i + 1] = XTok("end", call.res[i].n, <<>>)

\* a row with a text and a document-like value written while the buffer
\* held the declaration and the root start tag: the raw text is the sixth
\* token of the row, between the tags of the column name
C28_Witness ==
    /\ call.fn = "xmlStream"
    /\ Len(call.arg.pending) = 2
    /\ call.arg.keys = <<ColId, ColName>>
    /\ call.arg.values[1].t = "text" /\ call.arg.values[2].t = "array"
    /\ call.res[7] = XTok("start", ColName, <<>>)
    /\ call.res[8] = XTok("raw", ColName, <<"{", "a", "}">>)
    /\ call.res[9] = XTok("end", ColName, <<>>)


\* C29: when creating the output sink fails, for an unsupported compression
\* or because the compression layer cannot be opened on the file already
\* created, no file is left open when the error is returned
C29_NoOpenFileOnError ==
    (call.fn \in {"createOutputWriter", "createOutputWriterCreateFirst"}
     /\ call.res.err # Nil) =>
        /\ call.res.file # "open"
        /\ call.res.layer # "open"


\* C30: in the statement generator the batch slice never holds more than
\* B = RowPerStatement rows, holds fewer than B rows when an iteration of
\* the cursor loop starts, and is empty right after a statement was emitted
\* in the loop (every delivered row is in a statement)
C30_BatchBufferBounded ==
    (writer = "sql" /\ pc \in {"sqlNext", "sqlRow", "sqlFinal"}) =>
        /\ batchInsertValues.len <= options.RowPerStatement
        /\ pc = "sqlRow" => batchInsertValues.len < options.RowPerStatement
        /\ (pc = "sqlNext" /\ delivered # <<>>
            /\ RowsOf(Emitted) = delivered) => batchInsertValues.len = 0

=============================================================================
